---- MODULE Spec2Model ----
(***************************************************************************)
(* Verification model of the agent-memory gateway:                         *)
(*   - startup and Qdrant collection provisioning (main.rs,                *)
(*     vector_store.rs: ensure_collection / try_ensure_collection),        *)
(*   - the gateway handlers for the remote store and the in-process store  *)
(*     (routes.rs, vector_store.rs: upsert, memory.rs: MemoryStore).       *)
(* The specifications share the variables: SpecProv runs the process from  *)
(* its start through provisioning to serving or abort; the others run a    *)
(* process that has reached serving. Spec handles store requests that vary *)
(* in text, metadata, session and credentials; SpecMem and SpecEntries     *)
(* handle in-process store, search and delete requests, over entries that  *)
(* vary in embedding and tag, and in text, metadata and tag; SpecLock      *)
(* interleaves threads inside MemoryStore; SpecQdrant handles remote store *)
(* and search requests with the answers of the provider and of Qdrant;     *)
(* SpecEmbed handles POST /api/embed over several registries and provider  *)
(* answers; SpecGateway handles the five endpoints that embed a text;      *)
(* SpecScore searches entries with zero and tied scores; SpecProvFair is   *)
(* SpecProv with the fairness under which provisioning terminates.         *)
(***************************************************************************)
EXTENDS Integers, Sequences, FiniteSets, TLC

VARIABLES
    qdrantConfigured,   \* config.qdrant is Some            (main.rs:50)
    phase,              \* position of main: startup / provisioning / serving / aborted
    ec,                 \* position of ensure_collection: idle / checking / creating / backoff / done / failed
    attempts,           \* ensure_collection's `attempts` counter
    sleepSecs,          \* duration handed to the pending sleep()
    elapsed,            \* seconds the pending sleep() has been asleep
    ecResult,           \* what ensure_collection returned
    inflight,           \* requests sent to Qdrant and not yet answered
    log,                \* events of the current ensure_collection run, in order
    collectionExists,   \* Qdrant: the collection exists
    created,            \* Qdrant: how many times the collection was created
    runs,               \* process starts so far
    served,             \* requests accepted by axum::serve in this process
    sessionStoreConfigured, \* AppState.session_store is Some
    session_api_key,    \* AppState.session_api_key ("<none>" when unset)
    registry,           \* AppState.registry: the registered provider names and the default name
    entries,            \* MemoryStore.entries: id -> MemoryEntry
    iterOrder,          \* the order HashMap::values() walks the entries in
    nextId,             \* ids handed out so far by Uuid::new_v4 in MemoryStore::store, plus one
    lastOp,             \* the request handled last, with what the handler did and returned
    rwlock,             \* MemoryStore.entries' RwLock: who holds read access, who holds write access
    threads,            \* the handler threads that call MemoryStore concurrently
    points              \* Qdrant: the points of the collection, id -> payload

provVars == <<qdrantConfigured, phase, ec, attempts, sleepSecs, elapsed, ecResult,
              inflight, log, collectionExists, created, runs, served>>

serveVars == <<sessionStoreConfigured, session_api_key, registry, entries, iterOrder, nextId,
               lastOp>>

concVars == <<rwlock, threads, points>>

vars == <<provVars, serveVars, concVars>>

----------------------------------------------------------------------------
(* Bounds of the model                                                     *)

MaxRuns == 2        \* process starts explored (the backend outlives the process)
MaxServed == 2      \* requests counted once the server accepts traffic

MaxStores == 2      \* MemoryStore::store calls explored by SpecMem
MaxGatewayStores == 1 \* MemoryStore::store calls explored by Spec, whose requests vary in text and metadata
MaxLimit == 2       \* largest explicit search limit

----------------------------------------------------------------------------
(* Values                                                                  *)

\* Option::None of an optional string (session, id, api key, provider)
None == "<none>"

\* HashMap::new()
NoMeta == [k \in {} |-> ""]
NoEntries == [i \in {} |-> 0]

NoPoint == [id |-> None, payload |-> NoMeta]

\* provider.embed not called
NoEmbed == [requests |-> 0, kind |-> "none", status |-> 0, embedding |-> <<>>, error |-> ""]

\* No request sent to a provider, so no answer
NoEmbedAnswer ==
    [cfg |-> [type |-> "", keyEmpty |-> FALSE], status |-> -1, parseOk |-> TRUE,
     embeddings |-> <<>>, error |-> ""]

\* No request sent to Qdrant, so no answer
NoAnswer == [status |-> -1, body |-> "", parseOk |-> TRUE, hits |-> <<>>, error |-> ""]

\* No request handled yet.
NoOp == [op |-> "none", text |-> "", metadata |-> NoMeta, session |-> None, reqId |-> None,
         status |-> 0, result |-> "none", calls |-> <<>>, point |-> NoPoint, id |-> None,
         memId |-> 0, query |-> <<>>, limit |-> 0, results |-> <<>>, message |-> "",
         embed |-> NoEmbed, answer |-> NoAnswer, provider |-> None, key |-> None,
         asked |-> NoEmbedAnswer, apiKey |-> None]

\* RwLock::new(..): nobody holds the lock
Unlocked == [readers |-> {}, writer |-> None]

\* The handler threads of the runtime
Threads == {"h1", "h2"}

\* A MemoryEntry not yet built
NoEntry == [id |-> 0, text |-> "", metadata |-> NoMeta, session |-> None, embedding |-> <<>>]

\* A thread that is in no MemoryStore call. `stored` notes whether the id of
\* a delete was in the map when the call began, `removed` is what the delete
\* returned.
IdleThread == [pc |-> "idle", id |-> 0, entry |-> NoEntry, query |-> <<>>, limit |-> 0,
               session |-> None, seen |-> <<>>, snap |-> <<>>, torn |-> FALSE,
               result |-> <<>>, stored |-> FALSE, removed |-> FALSE]

\* An empty collection
NoPoints == [i \in {} |-> NoMeta]

\* The providers the registry was built with, and the configured default
RegisteredProviders == {"ollama"}
default_provider == "ollama"

\* ProviderRegistry::from_config: one provider for each configured name
ProviderRegistry_from_config(names, default) == [providers |-> names, default |-> default]

----------------------------------------------------------------------------
(* Errors and results                                                      *)

\* VectorStoreError::Http(_): the request got no response (network error, timeout)
HttpErr == [kind |-> "Http", status |-> 0]

\* VectorStoreError::Api { status, .. } built by api_error from a response
api_error(status) == [kind |-> "Api", status |-> status]

NoResult == [kind |-> "Pending", status |-> 0]
OkResult == [kind |-> "Ok", status |-> 0]

\* reqwest StatusCode::is_success: 2xx
is_success(status) == status >= 200 /\ status <= 299

\* loop bound of ensure_collection
max_attempts == 5

\* A mutant of is_transient: every error is retried
is_transient_any(e) == e.kind \in {"Http", "Api"}

\* matches!(&e, Http(_) | Api { status: 429 | 503, .. })
is_transient(e) ==
    \/ e.kind = "Http"
    \/ e.kind = "Api" /\ e.status \in {429, 503}

\* A mutant of wait_secs: a constant one-second delay
wait_secs_flat(n) == 1

\* 2u64.pow(attempts - 1)
wait_secs(n) == 2 ^ (n - 1)

----------------------------------------------------------------------------
(* The Qdrant backend as seen on the wire                                  *)

\* Statuses the existence check may answer with. 200 is given only for an
\* existing collection and 404 only for a missing one; the others stand for
\* rate limiting, unavailability and an internal error.
GetStatuses(exists) == (IF exists THEN {200} ELSE {404}) \cup {429, 503, 500}

\* Statuses the create request may answer with: created, or refused.
\* A collection that already exists is never created again (409).
CreateStatuses(exists) == (IF exists THEN {409} ELSE {200}) \cup {429, 503, 500}

Ev(e, n) == [ev |-> e, n |-> n]

----------------------------------------------------------------------------
(* main and ensure_collection                                              *)

InitProv ==
    /\ qdrantConfigured \in BOOLEAN
    /\ phase = "startup"
    /\ ec = "idle"
    /\ attempts = 0
    /\ sleepSecs = 0
    /\ elapsed = 0
    /\ ecResult = NoResult
    /\ inflight = {}
    /\ log = <<>>
    /\ collectionExists \in BOOLEAN
    /\ created = 0
    /\ runs = 1
    /\ served = 0
    /\ sessionStoreConfigured = FALSE
    /\ session_api_key = None
    /\ registry = ProviderRegistry_from_config(RegisteredProviders, default_provider)
    /\ entries = NoEntries
    /\ iterOrder = <<>>
    /\ nextId = 1
    /\ lastOp = NoOp
    /\ rwlock = Unlocked
    /\ threads = [t \in Threads |-> IdleThread]
    /\ points = NoPoints

\* `attempts += 1; self.try_ensure_collection()` up to the await of the GET
SendCheck ==
    /\ attempts' = attempts + 1
    /\ inflight' = inflight \cup {"GET"}
    /\ log' = Append(log, Ev("GET", attempts + 1))
    /\ ec' = "checking"

\* A mutant of StartupFailed: the failure is logged and startup goes on
StartupFailed_goes_on == phase' = "serving"

\* main on Err(e): unwrap_or_else(|e| panic!(..))
StartupFailed == phase' = "aborted"

\* main on Ok(()): builds the state and the router, binds and serves
StartupReady == phase' = "serving"

\* ensure_collection returns Ok(())
ReturnOk ==
    /\ ec' = "done"
    /\ ecResult' = OkResult
    /\ StartupReady

\* A mutant of OnError: a transient error is retried however many attempts
\* were made
OnError_retries_always(e) ==
    IF is_transient(e)
    THEN /\ ec' = "backoff"
         /\ sleepSecs' = wait_secs(attempts)
         /\ elapsed' = 0
         /\ UNCHANGED <<ecResult, phase>>
    ELSE /\ ec' = "failed"
         /\ ecResult' = e
         /\ StartupFailed
         /\ UNCHANGED <<sleepSecs, elapsed>>

\* The Err(e) arm of the loop: back off and retry, or return the error,
\* on which main panics.
OnError(e) ==
    IF is_transient(e) /\ attempts < max_attempts
    THEN /\ ec' = "backoff"
         /\ sleepSecs' = wait_secs(attempts)
         /\ elapsed' = 0
         /\ UNCHANGED <<ecResult, phase>>
    ELSE /\ ec' = "failed"
         /\ ecResult' = e
         /\ StartupFailed
         /\ UNCHANGED <<sleepSecs, elapsed>>

\* main up to its first await: with [qdrant] configured it calls
\* ensure_collection, otherwise it goes straight to serving.
Main ==
    /\ phase = "startup"
    /\ IF qdrantConfigured
       THEN /\ phase' = "provisioning"
            /\ SendCheck
            /\ UNCHANGED <<ecResult>>
       ELSE /\ phase' = "serving"
            /\ UNCHANGED <<ec, attempts, inflight, log, ecResult>>
    /\ UNCHANGED <<qdrantConfigured, sleepSecs, elapsed, collectionExists, created, runs, served>>
    /\ UNCHANGED serveVars
    /\ UNCHANGED concVars

\* A mutant of CheckAnswered: the create request is sent whatever the check said
CheckAnswered_always_creates(status) ==
    /\ log' = log \o <<Ev("resp", status), Ev("PUT", attempts)>>
    /\ ec' = "creating"
    /\ inflight' = (inflight \ {"GET"}) \cup {"PUT"}
    /\ UNCHANGED <<ecResult, phase, sleepSecs, elapsed>>

\* try_ensure_collection after the GET is answered with `status`
CheckAnswered(status) ==
    /\ log' = log \o <<Ev("resp", status)>> \o (IF status = 404 THEN <<Ev("PUT", attempts)>> ELSE <<>>)
    /\ IF status = 200
       THEN /\ ReturnOk
            /\ inflight' = inflight \ {"GET"}
            /\ UNCHANGED <<sleepSecs, elapsed>>
       ELSE IF status = 404
       THEN /\ ec' = "creating"
            /\ inflight' = (inflight \ {"GET"}) \cup {"PUT"}
            /\ UNCHANGED <<ecResult, phase, sleepSecs, elapsed>>
       ELSE /\ OnError(api_error(status))
            /\ inflight' = inflight \ {"GET"}

\* The GET gets a response.
CheckResponse ==
    /\ ec = "checking"
    /\ \E status \in GetStatuses(collectionExists) : CheckAnswered(status)
    /\ UNCHANGED <<qdrantConfigured, attempts, collectionExists, created, runs, served>>
    /\ UNCHANGED serveVars
    /\ UNCHANGED concVars

\* The GET fails in transport: map_err(VectorStoreError::Http)?
CheckNetworkError ==
    /\ ec = "checking"
    /\ inflight' = inflight \ {"GET"}
    /\ log' = Append(log, Ev("neterr", 0))
    /\ OnError(HttpErr)
    /\ UNCHANGED <<qdrantConfigured, attempts, collectionExists, created, runs, served>>
    /\ UNCHANGED serveVars
    /\ UNCHANGED concVars

\* A mutant of CreateAnswered: the status of the create response is not read
CreateAnswered_any_status(status) ==
    /\ ReturnOk
    /\ UNCHANGED <<sleepSecs, elapsed>>

\* try_ensure_collection after the PUT is answered with `status`
CreateAnswered(status) ==
    IF is_success(status)
    THEN /\ ReturnOk
         /\ UNCHANGED <<sleepSecs, elapsed>>
    ELSE OnError(api_error(status))

\* The PUT gets a response; a 2xx means Qdrant created the collection.
CreateResponse ==
    /\ ec = "creating"
    /\ \E status \in CreateStatuses(collectionExists) :
          /\ CreateAnswered(status)
          /\ log' = Append(log, Ev("resp", status))
          /\ collectionExists' = (collectionExists \/ is_success(status))
          /\ created' = IF is_success(status) THEN created + 1 ELSE created
    /\ inflight' = inflight \ {"PUT"}
    /\ UNCHANGED <<qdrantConfigured, attempts, runs, served>>
    /\ UNCHANGED serveVars
    /\ UNCHANGED concVars

\* The PUT fails in transport; the request may or may not have taken effect.
CreateNetworkError ==
    /\ ec = "creating"
    /\ \E applied \in BOOLEAN :
          /\ collectionExists' = (collectionExists \/ applied)
          /\ created' = IF applied /\ ~collectionExists THEN created + 1 ELSE created
    /\ inflight' = inflight \ {"PUT"}
    /\ log' = Append(log, Ev("neterr", 0))
    /\ OnError(HttpErr)
    /\ UNCHANGED <<qdrantConfigured, attempts, runs, served>>
    /\ UNCHANGED serveVars
    /\ UNCHANGED concVars

\* One second of the pending sleep() passes.
Tick ==
    /\ ec = "backoff"
    /\ elapsed < sleepSecs
    /\ elapsed' = elapsed + 1
    /\ UNCHANGED <<qdrantConfigured, phase, ec, attempts, sleepSecs, ecResult, inflight,
                   log, collectionExists, created, runs, served>>
    /\ UNCHANGED serveVars
    /\ UNCHANGED concVars

\* A mutant of SleepDone: the loop goes on without waiting
SleepDone_at_once == TRUE

\* sleep(Duration::from_secs(wait_secs)) completes
SleepDone == elapsed >= sleepSecs

\* A mutant of Wake: after the sleep the create request is sent again, with
\* no existence check before it
Wake_resends_create ==
    /\ ec = "backoff"
    /\ SleepDone
    /\ attempts' = attempts + 1
    /\ inflight' = inflight \cup {"PUT"}
    /\ log' = log \o <<Ev("slept", elapsed), Ev("PUT", attempts + 1)>>
    /\ ec' = "creating"
    /\ UNCHANGED <<qdrantConfigured, phase, sleepSecs, elapsed, ecResult,
                   collectionExists, created, runs, served>>
    /\ UNCHANGED serveVars
    /\ UNCHANGED concVars

\* The sleep is over and the loop starts its next attempt.
Wake ==
    /\ ec = "backoff"
    /\ SleepDone
    /\ attempts' = attempts + 1
    /\ inflight' = inflight \cup {"GET"}
    /\ log' = log \o <<Ev("slept", elapsed), Ev("GET", attempts + 1)>>
    /\ ec' = "checking"
    /\ UNCHANGED <<qdrantConfigured, phase, sleepSecs, elapsed, ecResult,
                   collectionExists, created, runs, served>>
    /\ UNCHANGED serveVars
    /\ UNCHANGED concVars

\* axum::serve accepts a request
Serve ==
    /\ phase = "serving"
    /\ served < MaxServed
    /\ served' = served + 1
    /\ UNCHANGED <<qdrantConfigured, phase, ec, attempts, sleepSecs, elapsed, ecResult,
                   inflight, log, collectionExists, created, runs>>
    /\ UNCHANGED serveVars
    /\ UNCHANGED concVars

\* The process ends (it panicked or was stopped) and is started again
\* against the same backend.
Restart ==
    /\ phase \in {"serving", "aborted"}
    /\ runs < MaxRuns
    /\ runs' = runs + 1
    /\ phase' = "startup"
    /\ ec' = "idle"
    /\ attempts' = 0
    /\ sleepSecs' = 0
    /\ elapsed' = 0
    /\ ecResult' = NoResult
    /\ inflight' = {}
    /\ log' = <<>>
    /\ served' = 0
    /\ UNCHANGED <<qdrantConfigured, collectionExists, created>>
    /\ UNCHANGED serveVars
    /\ UNCHANGED concVars

NextProv ==
    \/ Main
    \/ CheckResponse
    \/ CheckNetworkError
    \/ CreateResponse
    \/ CreateNetworkError
    \/ Tick
    \/ Wake
    \/ Serve
    \/ Restart

SpecProv == InitProv /\ [][NextProv]_vars

\* The same process where what is pending happens: main runs, a request
\* that was sent gets a response or fails in transport (the client's
\* timeout ends a request that gets no response), and the timer behind
\* sleep() advances and fires.
ProvFairness ==
    /\ WF_vars(Main)
    /\ WF_vars(CheckResponse \/ CheckNetworkError)
    /\ WF_vars(CreateResponse \/ CreateNetworkError)
    /\ WF_vars(Tick)
    /\ WF_vars(Wake)

SpecProvFair == InitProv /\ [][NextProv]_vars /\ ProvFairness

----------------------------------------------------------------------------
(* memory.rs: MemoryStore                                                  *)
(* Embeddings are vectors of small integers, on which the f32 arithmetic   *)
(* of cosine_similarity is exact. A score is kept as the fraction          *)
(* <<sign(dot) * dot^2, |a|^2 * |b|^2>>, the signed square of the cosine,  *)
(* which orders as the cosine does; the score 0.0 is <<0, 1>>.             *)

RECURSIVE SumTo(_, _)
SumTo(f, n) == IF n = 0 THEN 0 ELSE f[n] + SumTo(f, n - 1)

MinOf(a, b) == IF a < b THEN a ELSE b

\* a.iter().zip(b.iter()).map(|(x, y)| x * y).sum()
Dot(a, b) ==
    LET n == MinOf(Len(a), Len(b))
    IN  SumTo([i \in 1..n |-> a[i] * b[i]], n)

\* a.iter().map(|x| x * x).sum(): the square of the magnitude
SqMag(a) == SumTo([i \in 1..Len(a) |-> a[i] * a[i]], Len(a))

\* A mutant of cosine_similarity: no test of the magnitudes, so a zero
\* magnitude divides by zero
cosine_similarity_unguarded(a, b) ==
    LET dot == Dot(a, b)
    IN  <<(IF dot < 0 THEN -1 ELSE 1) * dot * dot, SqMag(a) * SqMag(b)>>

\* cosine_similarity: the score as the fraction <<numerator, denominator>>
\* of its signed square; 0.0 is <<0, 1>>
cosine_similarity(a, b) ==
    LET dot == Dot(a, b)
    IN  IF SqMag(a) = 0 \/ SqMag(b) = 0 \/ dot = 0
        THEN <<0, 1>>
        ELSE <<(IF dot < 0 THEN -1 ELSE 1) * dot * dot, SqMag(a) * SqMag(b)>>

\* x > y on scores
ScoreGT(x, y) == x[1] * y[2] > y[1] * x[2]

\* A mutant of session_matches: an untagged entry passes every filter
session_matches_untagged(e, session) ==
    session = None \/ e.session = session \/ e.session = None

\* The filter closure of search: Some(s) => e.session.as_deref() == Some(s), None => true
session_matches(e, session) ==
    IF session = None THEN TRUE ELSE e.session = session

\* A mutant of sorts_after: ascending order
sorts_after_ascending(x, y) == ~ScoreGT(y.score, x.score)

\* The comparator of sort_by, b.score.partial_cmp(&a.score): the stable sort
\* leaves x behind y unless x scores strictly higher.
sorts_after(x, y) == ~ScoreGT(x.score, y.score)

\* x put into the sorted sequence s behind every element it does not outrank
InsertSorted(s, x) ==
    LET k == Cardinality({i \in 1..Len(s) : \A j \in 1..i : sorts_after(x, s[j])})
    IN  SubSeq(s, 1, k) \o <<x>> \o SubSeq(s, k + 1, Len(s))

\* Vec::sort_by: a stable sort
RECURSIVE sort_by(_)
sort_by(s) ==
    IF Len(s) <= 1 THEN s
    ELSE InsertSorted(sort_by(SubSeq(s, 1, Len(s) - 1)), s[Len(s)])

\* Vec::truncate
truncate(s, limit) == SubSeq(s, 1, MinOf(limit, Len(s)))

\* entries.values(): the entries in the map's iteration order
Values == [i \in 1..Len(iterOrder) |-> entries[iterOrder[i]]]

\* The body of search on the entries that values() yields: filter, map to
\* SearchResult with its score, sort_by, truncate
search_values(values, query_embedding, limit, session) ==
    LET filtered == SelectSeq(values, LAMBDA e : session_matches(e, session))
        scored == [i \in 1..Len(filtered) |->
                     [id |-> filtered[i].id, text |-> filtered[i].text,
                      metadata |-> filtered[i].metadata, session |-> filtered[i].session,
                      score |-> cosine_similarity(query_embedding, filtered[i].embedding)]]
    IN  truncate(sort_by(scored), limit)

\* MemoryStore::search
MemoryStore_search(query_embedding, limit, session) ==
    search_values(Values, query_embedding, limit, session)

\* The orders a HashMap may iterate the ids of `ids` in.
Orders(ids) ==
    {o \in [1..Cardinality(ids) -> ids] : \A i, j \in 1..Cardinality(ids) : o[i] = o[j] => i = j}

\* A mutant of MemoryStore_store: a metadata key `text` replaces the entry's text
MemoryStore_store_flattened(id, text, metadata, session, embedding) ==
    [i \in DOMAIN entries \cup {id} |->
        IF i = id
        THEN [id |-> id,
              text |-> IF "text" \in DOMAIN metadata THEN metadata["text"] ELSE text,
              metadata |-> metadata, session |-> session, embedding |-> embedding]
        ELSE entries[i]]

\* A mutant of MemoryStore_store: the insert also gives every entry the new session tag
MemoryStore_store_retags(id, text, metadata, session, embedding) ==
    [i \in DOMAIN entries \cup {id} |->
        IF i = id
        THEN [id |-> id, text |-> text, metadata |-> metadata, session |-> session,
              embedding |-> embedding]
        ELSE [entries[i] EXCEPT !.session = session]]

\* MemoryStore::store: the map after the insert of a new entry under a fresh id
MemoryStore_store(id, text, metadata, session, embedding) ==
    [i \in DOMAIN entries \cup {id} |->
        IF i = id
        THEN [id |-> id, text |-> text, metadata |-> metadata, session |-> session,
              embedding |-> embedding]
        ELSE entries[i]]

\* A mutant of MemoryStore_delete: nothing is removed
MemoryStore_delete_keeps(id) == entries

\* MemoryStore::delete: the map after remove(id)
MemoryStore_delete(id) == [i \in DOMAIN entries \ {id} |-> entries[i]]

----------------------------------------------------------------------------
(* embedding/mod.rs: ProviderRegistry, and the providers as seen by routes *)

\* A mutant of ProviderRegistry_get: an unknown name falls back to the default
ProviderRegistry_get_falls_back(name) ==
    IF name # None /\ name \in registry.providers THEN name
    ELSE IF registry.default \in registry.providers THEN registry.default
    ELSE "ProviderNotFound"

\* ProviderRegistry::get(name): the key of the provider found, the provider
\* being the one the registry holds under that key, or ProviderNotFound
ProviderRegistry_get(name) ==
    LET key == IF name = None THEN registry.default ELSE name
    IN  IF key \in registry.providers THEN key ELSE "ProviderNotFound"

\* ProviderRegistry::get(..) finds a provider
registry_has(provider) == ProviderRegistry_get(provider) # "ProviderNotFound"

\* A mutant of resolve_store_and_provider: the provider is resolved first
resolve_store_and_provider_provider_first(provider_override) ==
    IF ~registry_has(provider_override) THEN "ProviderNotFound"
    ELSE IF ~qdrantConfigured THEN "NotConfigured"
    ELSE "Ok"

\* AppState::resolve_store_and_provider: the store, then the provider
resolve_store_and_provider(provider_override) ==
    IF ~qdrantConfigured THEN "NotConfigured"
    ELSE IF ~registry_has(provider_override) THEN "ProviderNotFound"
    ELSE "Ok"

----------------------------------------------------------------------------
(* routes.rs: the handlers. A handler acts on one request; what the        *)
(* collaborators answer (provider, session store, Qdrant) is chosen with   *)
(* the request.                                                            *)

\* The session store holds these sessions.
Sessions == {"s1"}

Op(op, text, metadata, session, reqId) ==
    [NoOp EXCEPT !.op = op, !.text = text, !.metadata = metadata, !.session = session,
                 !.reqId = reqId]

\* A mutant of require_non_empty_text: every text passes
require_non_empty_text_any(text) == TRUE

\* text.is_empty() is false
require_non_empty_text(text) == text # ""

\* A mutant of has_reserved_key: only `text` is looked for
has_reserved_key_text_only(metadata) == "text" \in DOMAIN metadata

\* A mutant of has_reserved_key: the handler does not look at the metadata
has_reserved_key_never(metadata) == FALSE

\* store_memory_qdrant: metadata.contains_key("text") || metadata.contains_key("session_id")
has_reserved_key(metadata) ==
    "text" \in DOMAIN metadata \/ "session_id" \in DOMAIN metadata

\* A mutant of validate_session_auth: any header passes, only a missing one fails
validate_session_auth_any_header(key) ==
    IF session_api_key # None THEN key # None ELSE TRUE

\* validate_session_auth: the X-Api-Key header (absent: None) against the
\* configured key
validate_session_auth(key) ==
    IF session_api_key # None THEN key = session_api_key ELSE TRUE

\* HashMap::insert
MapInsert(m, k, v) == [x \in DOMAIN m \cup {k} |-> IF x = k THEN v ELSE m[x]]

\* store_memory_qdrant: metadata.insert("session_id", sid) when a session is given
with_session_id(metadata, session_id) ==
    IF session_id # None THEN MapInsert(metadata, "session_id", session_id) ELSE metadata

\* QdrantStore::upsert up to the request: the reserved `text` entry is
\* refused when occupied and filled in when vacant.
upsert_rejects(metadata) == "text" \in DOMAIN metadata

\* QdrantStore::upsert: entry.insert(Value::String(text))
upsert_payload(text, metadata) == MapInsert(metadata, "text", text)

\* A mutant of QdrantStore_upsert: the point always gets a generated id
QdrantStore_upsert_fresh_id(op, id, genId, text, metadata, status) ==
    IF upsert_rejects(metadata)
    THEN [op EXCEPT !.result = "BadRequest"]
    ELSE LET sent == [op EXCEPT !.calls = Append(op.calls, "upsert"),
                                !.point = [id |-> genId,
                                           payload |-> upsert_payload(text, metadata)]]
         IN  IF status = 0 THEN [sent EXCEPT !.result = "Http"]
             ELSE IF ~is_success(status)
             THEN [sent EXCEPT !.result = "Api", !.status = status]
             ELSE [sent EXCEPT !.result = "Ok", !.id = genId]

\* QdrantStore::upsert(id, vector, text, metadata) given Qdrant's answer
\* (status 0: no response)
QdrantStore_upsert(op, id, genId, text, metadata, status) ==
    LET point_id == IF id # None THEN id ELSE genId
    IN  IF upsert_rejects(metadata)
        THEN [op EXCEPT !.result = "BadRequest"]
        ELSE LET sent == [op EXCEPT !.calls = Append(op.calls, "upsert"),
                                    !.point = [id |-> point_id,
                                               payload |-> upsert_payload(text, metadata)]]
             IN  IF status = 0 THEN [sent EXCEPT !.result = "Http"]
                 ELSE IF ~is_success(status)
                 THEN [sent EXCEPT !.result = "Api", !.status = status]
                 ELSE [sent EXCEPT !.result = "Ok", !.id = point_id]

\* The tail of store_memory_qdrant: after a successful upsert the session is
\* touched, best effort, and the id is returned.
touch_session(op, session_id) ==
    IF op.result = "Ok" /\ session_id # None /\ sessionStoreConfigured
    THEN [op EXCEPT !.calls = Append(op.calls, "touch")]
    ELSE op

\* A mutant of SessionStore_get: every id is reported as a session
SessionStore_get_finds_any(id) == TRUE

\* SessionStore::get(id) answers Some(session): the store has a row for id
SessionStore_get(id) == id \in Sessions

\* store_memory_qdrant(headers, query, body) with the collaborators' answers:
\* dbOk (the session lookup succeeds), embedOk, genId (Uuid::new_v4), status
\* (Qdrant's answer to the upsert).
store_memory_qdrant(key, provider, text, id, session_id, metadata, dbOk, embedOk, genId, status) ==
    LET op == Op("store_memory_qdrant", text, metadata, session_id, id)
        looked == [op EXCEPT !.calls = IF session_id # None THEN <<"session_get">> ELSE <<>>]
        embedded == [looked EXCEPT !.calls = Append(looked.calls, "embed")]
    IN  IF ~require_non_empty_text(text) THEN [op EXCEPT !.result = "BadRequest"]
        ELSE IF has_reserved_key(metadata) THEN [op EXCEPT !.result = "BadRequest"]
        ELSE IF session_id # None /\ ~validate_session_auth(key)
             THEN [op EXCEPT !.result = "Unauthorized"]
        ELSE IF session_id # None /\ ~sessionStoreConfigured
             THEN [op EXCEPT !.result = "BadRequest"]
        ELSE IF session_id # None /\ ~dbOk
             THEN [looked EXCEPT !.result = "InternalDependencyError"]
        ELSE IF session_id # None /\ ~SessionStore_get(session_id)
             THEN [looked EXCEPT !.result = "BadRequest"]
        ELSE IF resolve_store_and_provider(provider) # "Ok"
             THEN [looked EXCEPT !.result = resolve_store_and_provider(provider)]
        ELSE IF ~embedOk THEN [embedded EXCEPT !.result = "EmbeddingError"]
        ELSE touch_session(
                 QdrantStore_upsert(embedded, id, genId, text,
                                    with_session_id(metadata, session_id), status),
                 session_id)

\* No request is being handled.
Idle == lastOp.op = "none"

\* The handler returns and axum sends the response: the request is over.
Respond ==
    /\ phase = "serving"
    /\ ~Idle
    /\ lastOp' = NoOp
    /\ UNCHANGED <<entries, iterOrder, nextId, sessionStoreConfigured, session_api_key, registry>>
    /\ UNCHANGED provVars
    /\ UNCHANGED concVars

\* What the requests are drawn from
Texts == {"", "t1"}
MetaKeys == {"text", "session_id", "k"}
Metadatas == {NoMeta} \cup {[x \in {k} |-> "m1"] : k \in MetaKeys}
ApiKeys == {None, "k1", "bad"}
ProviderNames == {None, "nope"}
SessionIds == {None, "s1", "s2"}
PointIds == {None, "u1"}
GenIds == {"g1"}
UpsertStatuses == {0, 200, 400}
SessionTags == {None, "a"}
UnitVecs == {<<1, 0>>}

\* POST /api/memory
StoreMemoryQdrant ==
    /\ phase = "serving"
    /\ Idle
    /\ \E key \in ApiKeys, provider \in ProviderNames, text \in Texts, id \in PointIds,
          session_id \in SessionIds, metadata \in Metadatas, dbOk \in BOOLEAN,
          embedOk \in BOOLEAN, genId \in GenIds, status \in UpsertStatuses :
          lastOp' = store_memory_qdrant(key, provider, text, id, session_id, metadata,
                                        dbOk, embedOk, genId, status)
    /\ UNCHANGED <<entries, iterOrder, nextId, sessionStoreConfigured, session_api_key, registry>>
    /\ UNCHANGED provVars
    /\ UNCHANGED concVars

\* store_memory(query, body) up to the call of MemoryStore::store, with the
\* provider's answer: the handler's outcome, result "Created" when it stores.
store_memory(provider, text, metadata, session, embedOk) ==
    LET op == Op("store_memory", text, metadata, session, None)
    IN  IF ~require_non_empty_text(text) THEN [op EXCEPT !.result = "BadRequest"]
        ELSE IF ~registry_has(provider) THEN [op EXCEPT !.result = "ProviderNotFound"]
        ELSE IF ~embedOk THEN [op EXCEPT !.calls = <<"embed">>, !.result = "EmbeddingError"]
        ELSE [op EXCEPT !.calls = <<"embed">>, !.result = "Created", !.memId = nextId]

\* A mutant of StoreMemory: the entry is inserted before the request is
\* validated and embedded, whatever the outcome
StoreMemory_inserts_first(texts, metadatas, tags, vecs, maxStores) ==
    /\ phase = "serving"
    /\ Idle
    /\ \E provider \in ProviderNames, text \in texts, metadata \in metadatas,
          session \in tags, embedOk \in BOOLEAN, embedding \in vecs :
          /\ lastOp' = store_memory(provider, text, metadata, session, embedOk)
          /\ nextId <= maxStores
          /\ entries' = MemoryStore_store(nextId, text, metadata, session, embedding)
          /\ iterOrder' \in Orders(DOMAIN entries \cup {nextId})
          /\ nextId' = nextId + 1
    /\ UNCHANGED <<sessionStoreConfigured, session_api_key, registry>>
    /\ UNCHANGED provVars
    /\ UNCHANGED concVars

\* POST /memory, its requests drawn from the given sets, at most maxStores stored
StoreMemory(texts, metadatas, tags, vecs, maxStores) ==
    /\ phase = "serving"
    /\ Idle
    /\ \E provider \in ProviderNames, text \in texts, metadata \in metadatas,
          session \in tags, embedOk \in BOOLEAN, embedding \in vecs :
          LET op == store_memory(provider, text, metadata, session, embedOk)
          IN  /\ lastOp' = op
              /\ IF op.result = "Created"
                 THEN /\ nextId <= maxStores
                      /\ entries' = MemoryStore_store(nextId, text, metadata, session, embedding)
                      /\ iterOrder' \in Orders(DOMAIN entries \cup {nextId})
                      /\ nextId' = nextId + 1
                 ELSE UNCHANGED <<entries, iterOrder, nextId>>
    /\ UNCHANGED <<sessionStoreConfigured, session_api_key, registry>>
    /\ UNCHANGED provVars
    /\ UNCHANGED concVars

\* search_memory(query) with the provider's answer
search_memory(provider, q, limit, session, embedOk, query_embedding) ==
    LET op == [Op("search_memory", q, NoMeta, session, None) EXCEPT !.limit = limit]
    IN  IF ~require_non_empty_text(q) THEN [op EXCEPT !.result = "BadRequest"]
        ELSE IF ~registry_has(provider) THEN [op EXCEPT !.result = "ProviderNotFound"]
        ELSE IF ~embedOk THEN [op EXCEPT !.calls = <<"embed">>, !.result = "EmbeddingError"]
        ELSE [op EXCEPT !.calls = <<"embed">>, !.result = "Ok", !.query = query_embedding,
                        !.results = MemoryStore_search(query_embedding, limit, session)]

\* query.limit.unwrap_or(10)
DEFAULT_MEMORY_SEARCH_LIMIT == 10

\* A mutant of SearchMemory: every search walks the map in an order of its own
SearchMemory_reorders(texts, tags, vecs) ==
    /\ phase = "serving"
    /\ Idle
    /\ \E provider \in ProviderNames, q \in texts, session \in tags, embedOk \in BOOLEAN,
          limit \in 0..MaxLimit \cup {DEFAULT_MEMORY_SEARCH_LIMIT}, query_embedding \in vecs :
          lastOp' = search_memory(provider, q, limit, session, embedOk, query_embedding)
    /\ iterOrder' \in Orders(DOMAIN entries)
    /\ UNCHANGED <<entries, nextId, sessionStoreConfigured, session_api_key, registry>>
    /\ UNCHANGED provVars
    /\ UNCHANGED concVars

\* GET /memory/search
SearchMemory(texts, tags, vecs) ==
    /\ phase = "serving"
    /\ Idle
    /\ \E provider \in ProviderNames, q \in texts, session \in tags, embedOk \in BOOLEAN,
          limit \in 0..MaxLimit \cup {DEFAULT_MEMORY_SEARCH_LIMIT}, query_embedding \in vecs :
          lastOp' = search_memory(provider, q, limit, session, embedOk, query_embedding)
    /\ UNCHANGED <<entries, iterOrder, nextId, sessionStoreConfigured, session_api_key, registry>>
    /\ UNCHANGED provVars
    /\ UNCHANGED concVars

\* DELETE /memory/:id
DeleteMemory ==
    /\ phase = "serving"
    /\ Idle
    /\ \E id \in 1..(nextId - 1) :
          /\ lastOp' = [NoOp EXCEPT !.op = "delete_memory", !.memId = id,
                                    !.result = IF id \in DOMAIN entries THEN "NoContent"
                                               ELSE "MemoryNotFound"]
          /\ entries' = MemoryStore_delete(id)
          /\ iterOrder' = SelectSeq(iterOrder, LAMBDA x : x # id)
    /\ UNCHANGED <<nextId, sessionStoreConfigured, session_api_key, registry>>
    /\ UNCHANGED provVars
    /\ UNCHANGED concVars

\* The process is serving: provisioning, when configured, has succeeded.
\* Its registry is one of `registries`.
InitServingWith(registries) ==
    /\ qdrantConfigured \in BOOLEAN
    /\ phase = "serving"
    /\ ec = (IF qdrantConfigured THEN "done" ELSE "idle")
    /\ attempts = (IF qdrantConfigured THEN 1 ELSE 0)
    /\ sleepSecs = 0
    /\ elapsed = 0
    /\ ecResult = (IF qdrantConfigured THEN OkResult ELSE NoResult)
    /\ inflight = {}
    /\ log = (IF qdrantConfigured THEN <<Ev("GET", 1), Ev("resp", 200)>> ELSE <<>>)
    /\ collectionExists = qdrantConfigured
    /\ created = 0
    /\ runs = 1
    /\ served = 0
    /\ sessionStoreConfigured \in BOOLEAN
    /\ session_api_key \in {None, "k1"}
    /\ registry \in registries
    /\ entries = NoEntries
    /\ iterOrder = <<>>
    /\ nextId = 1
    /\ lastOp = NoOp
    /\ rwlock = Unlocked
    /\ threads = [t \in Threads |-> IdleThread]
    /\ points = NoPoints

InitServing ==
    InitServingWith({ProviderRegistry_from_config(RegisteredProviders, default_provider)})

GatewayStoreMemory == StoreMemory(Texts, Metadatas, SessionTags, UnitVecs, MaxGatewayStores)

Next ==
    \/ StoreMemoryQdrant
    \/ GatewayStoreMemory
    \/ Respond

Spec == InitServing /\ [][Next]_vars

\* The embeddings and session tags of the in-process store's own checks
Vecs == {<<1, 0>>, <<0, 1>>, <<2, 0>>}
QueryVecs == Vecs \cup {<<1, 1>>, <<0, 0>>, <<-1, 1>>}
Tags == {None, "a", "b"}

MemStoreMemory == StoreMemory({"t1"}, {NoMeta}, Tags, Vecs, MaxStores)
MemSearchMemory == SearchMemory({"", "t1"}, Tags, QueryVecs)

NextMem ==
    \/ MemStoreMemory
    \/ MemSearchMemory
    \/ DeleteMemory
    \/ Respond

\* A serving process without Qdrant, session store or session API key
InitMem ==
    /\ InitServing
    /\ ~qdrantConfigured
    /\ ~sessionStoreConfigured
    /\ session_api_key = None

SpecMem == InitMem /\ [][NextMem]_vars

\* The in-process store with entries that vary in text, metadata and tag
MaxEntryStores == 2
EntryTexts == {"", "t1", "t2"}
EntryMetadatas == {NoMeta, [x \in {"k"} |-> "m1"]}

EntStoreMemory == StoreMemory(EntryTexts, EntryMetadatas, SessionTags, UnitVecs, MaxEntryStores)
EntSearchMemory == SearchMemory({"t1"}, SessionTags, UnitVecs)

NextEntries ==
    \/ EntStoreMemory
    \/ EntSearchMemory
    \/ DeleteMemory
    \/ Respond

SpecEntries == InitMem /\ [][NextEntries]_vars

----------------------------------------------------------------------------
(* The in-process store with embeddings of zero magnitude and entries that *)
(* score the same                                                          *)

MaxScoreStores == 2

\* No component, the zero vector, two vectors of one direction, and one
\* orthogonal to them
ScoreVecs == {<<>>, <<0, 0>>, <<1, 0>>, <<2, 0>>, <<0, 1>>}

ScoreStoreMemory == StoreMemory({"t1"}, {NoMeta}, {None}, ScoreVecs, MaxScoreStores)
ScoreSearchMemory == SearchMemory({"t1"}, {None}, ScoreVecs)

NextScore ==
    \/ ScoreStoreMemory
    \/ ScoreSearchMemory
    \/ DeleteMemory
    \/ Respond

SpecScore == InitMem /\ [][NextScore]_vars

----------------------------------------------------------------------------
(* memory.rs: MemoryStore called from several threads. The map is behind   *)
(* entries: RwLock<HashMap>; store and delete mutate it under write(),     *)
(* search walks it under read(). A call is split where the thread can be   *)
(* interleaved: before the lock is acquired, while it is held, and (for a  *)
(* search) between the entries that values() yields.                       *)

MaxLockStores == 2
LockVecs == {<<1, 0>>, <<0, 1>>}
LockLimits == {1, DEFAULT_MEMORY_SEARCH_LIMIT}

Pc(t) == threads[t].pc

WritingPcs == {"store_writing", "delete_writing"}

\* The threads inside a map mutation, and inside a walk of the map
Writing == {t \in Threads : Pc(t) \in WritingPcs}
Reading == {t \in Threads : Pc(t) = "reading"}

\* A mutant of write_available: write() is granted whoever holds the lock
write_available_always == TRUE

\* RwLock::write() returns: nobody holds the lock
write_available == rwlock.readers = {} /\ rwlock.writer = None

\* A mutant of read_available: read() is granted while a writer holds the lock
read_available_always == TRUE

\* RwLock::read() returns: no writer holds the lock
read_available == rwlock.writer = None

\* store up to the lock: the id is generated and the entry is built
CallStore(t) ==
    /\ phase = "serving"
    /\ Pc(t) = "idle"
    /\ nextId <= MaxLockStores
    /\ \E embedding \in LockVecs :
          threads' = [threads EXCEPT ![t] =
             [IdleThread EXCEPT !.pc = "store", !.id = nextId,
                                !.entry = [id |-> nextId, text |-> "t1", metadata |-> NoMeta,
                                           session |-> None, embedding |-> embedding]]]
    /\ nextId' = nextId + 1
    /\ UNCHANGED <<entries, iterOrder, rwlock, points, lastOp, sessionStoreConfigured,
                   session_api_key, registry>>
    /\ UNCHANGED provVars

\* delete(id) is called
CallDelete(t) ==
    /\ phase = "serving"
    /\ Pc(t) = "idle"
    /\ \E id \in 1..(nextId - 1) :
          threads' = [threads EXCEPT ![t] =
             [IdleThread EXCEPT !.pc = "delete", !.id = id, !.stored = id \in DOMAIN entries]]
    /\ UNCHANGED <<entries, iterOrder, nextId, rwlock, points, lastOp, sessionStoreConfigured,
                   session_api_key, registry>>
    /\ UNCHANGED provVars

\* search(query_embedding, limit, None) is called
CallSearch(t) ==
    /\ phase = "serving"
    /\ Pc(t) = "idle"
    /\ \E limit \in LockLimits :
          threads' = [threads EXCEPT ![t] =
             [IdleThread EXCEPT !.pc = "search", !.query = <<1, 0>>, !.limit = limit]]
    /\ UNCHANGED <<entries, iterOrder, nextId, rwlock, points, lastOp, sessionStoreConfigured,
                   session_api_key, registry>>
    /\ UNCHANGED provVars

\* self.entries.write().unwrap() in store or delete
AcquireWrite(t) ==
    /\ Pc(t) \in {"store", "delete"}
    /\ write_available
    /\ rwlock' = [rwlock EXCEPT !.writer = t]
    /\ threads' = [threads EXCEPT
                      ![t].pc = IF Pc(t) = "store" THEN "store_writing" ELSE "delete_writing"]
    /\ UNCHANGED <<entries, iterOrder, nextId, points, lastOp, sessionStoreConfigured,
                   session_api_key, registry>>
    /\ UNCHANGED provVars

\* .insert(id.clone(), entry); the guard is dropped and store returns
StoreInsert(t) ==
    /\ Pc(t) = "store_writing"
    /\ LET e == threads[t].entry
       IN  /\ entries' = MemoryStore_store(e.id, e.text, e.metadata, e.session, e.embedding)
           /\ iterOrder' \in Orders(DOMAIN entries \cup {e.id})
    /\ rwlock' = [rwlock EXCEPT !.writer = None]
    /\ threads' = [threads EXCEPT ![t] = IdleThread]
    /\ UNCHANGED <<nextId, points, lastOp, sessionStoreConfigured, session_api_key, registry>>
    /\ UNCHANGED provVars

\* A mutant of DeleteRemove: delete reports true whether or not the id was
\* in the map
DeleteRemove_reports_true(t) ==
    /\ Pc(t) = "delete_writing"
    /\ entries' = MemoryStore_delete(threads[t].id)
    /\ iterOrder' = SelectSeq(iterOrder, LAMBDA x : x # threads[t].id)
    /\ rwlock' = [rwlock EXCEPT !.writer = None]
    /\ threads' = [threads EXCEPT ![t].pc = "deleted", ![t].removed = TRUE]
    /\ UNCHANGED <<nextId, points, lastOp, sessionStoreConfigured, session_api_key, registry>>
    /\ UNCHANGED provVars

\* .remove(id).is_some(); the guard is dropped and delete returns whether
\* the id was in the map.
DeleteRemove(t) ==
    /\ Pc(t) = "delete_writing"
    /\ entries' = MemoryStore_delete(threads[t].id)
    /\ iterOrder' = SelectSeq(iterOrder, LAMBDA x : x # threads[t].id)
    /\ rwlock' = [rwlock EXCEPT !.writer = None]
    /\ threads' = [threads EXCEPT ![t].pc = "deleted",
                                  ![t].removed = threads[t].id \in DOMAIN entries]
    /\ UNCHANGED <<nextId, points, lastOp, sessionStoreConfigured, session_api_key, registry>>
    /\ UNCHANGED provVars

\* The caller of delete has taken the result.
ReturnDelete(t) ==
    /\ Pc(t) = "deleted"
    /\ threads' = [threads EXCEPT ![t] = IdleThread]
    /\ UNCHANGED <<entries, iterOrder, nextId, rwlock, points, lastOp, sessionStoreConfigured,
                   session_api_key, registry>>
    /\ UNCHANGED provVars

\* let entries = self.entries.read().unwrap(); snap keeps the map as it
\* stands at this point.
AcquireRead(t) ==
    /\ Pc(t) = "search"
    /\ read_available
    /\ rwlock' = [rwlock EXCEPT !.readers = @ \cup {t}]
    /\ threads' = [threads EXCEPT ![t].pc = "reading", ![t].snap = Values]
    /\ UNCHANGED <<entries, iterOrder, nextId, points, lastOp, sessionStoreConfigured,
                   session_api_key, registry>>
    /\ UNCHANGED provVars

\* entries.values() yields the next entry; it is torn when read while a
\* thread is inside a mutation of the map.
ReadNext(t) ==
    /\ Pc(t) = "reading"
    /\ Len(threads[t].seen) < Len(iterOrder)
    /\ threads' = [threads EXCEPT
                      ![t].seen = Append(@, entries[iterOrder[Len(@) + 1]]),
                      ![t].torn = @ \/ Writing # {}]
    /\ UNCHANGED <<entries, iterOrder, nextId, rwlock, points, lastOp, sessionStoreConfigured,
                   session_api_key, registry>>
    /\ UNCHANGED provVars

\* values() is exhausted: collect, sort_by, truncate; the guard is dropped
\* and search returns.
FinishSearch(t) ==
    /\ Pc(t) = "reading"
    /\ Len(threads[t].seen) >= Len(iterOrder)
    /\ rwlock' = [rwlock EXCEPT !.readers = @ \ {t}]
    /\ threads' = [threads EXCEPT
                      ![t].pc = "searched",
                      ![t].result = search_values(threads[t].seen, threads[t].query,
                                                  threads[t].limit, threads[t].session)]
    /\ UNCHANGED <<entries, iterOrder, nextId, points, lastOp, sessionStoreConfigured,
                   session_api_key, registry>>
    /\ UNCHANGED provVars

\* The caller of search has taken the result.
ReturnSearch(t) ==
    /\ Pc(t) = "searched"
    /\ threads' = [threads EXCEPT ![t] = IdleThread]
    /\ UNCHANGED <<entries, iterOrder, nextId, rwlock, points, lastOp, sessionStoreConfigured,
                   session_api_key, registry>>
    /\ UNCHANGED provVars

NextLock ==
    \E t \in Threads :
       \/ CallStore(t)
       \/ CallDelete(t)
       \/ CallSearch(t)
       \/ AcquireWrite(t)
       \/ StoreInsert(t)
       \/ DeleteRemove(t)
       \/ AcquireRead(t)
       \/ ReadNext(t)
       \/ FinishSearch(t)
       \/ ReturnSearch(t)
       \/ ReturnDelete(t)

SpecLock == InitMem /\ [][NextLock]_vars

----------------------------------------------------------------------------
(* vector_store.rs: QdrantStore::upsert and QdrantStore::search with the   *)
(* backend's answers, the providers' embed, and the handlers of            *)
(* POST /api/memory and POST /api/search on top of them.                   *)

MaxGenerated == 1   \* point ids generated by Uuid::new_v4 in upsert
MaxHits == 2        \* hits in one search response

\* serde_json::Value, as far as the code tells values apart
Str(s) == [t |-> "String", v |-> s]
Num(n) == [t |-> "Number", v |-> n]
Null == [t |-> "Null", v |-> 0]

\* A payload of strings as the JSON object Qdrant keeps
Json(m) == [k \in DOMAIN m |-> Str(m[k])]

\* The n-th id Uuid::new_v4 hands out
GenId(n) == "g" \o ToString(n)

\* resp.text() failed
Unreadable == "<unreadable>"
Bodies == {"boom", Unreadable}

\* A mutant of api_error_message: an unreadable body gives an empty message
api_error_message_empty(body) == IF body = Unreadable THEN "" ELSE body

\* api_error: resp.text().await.unwrap_or_else(|_| "<failed to read response body>")
api_error_message(body) ==
    IF body = Unreadable THEN "<failed to read response body>" ELSE body

\* The text of the reqwest::Error of a request that got no response: it
\* names the URL asked and what went wrong
TransportError(url) == "error sending request for url (" \o url \o ")"

\* What Qdrant answers to a request: status 0 stands for no response
\* (network error, timeout), and then `error` is the reqwest::Error.
Answer(status, body, parseOk, hits) ==
    [status |-> status, body |-> body, parseOk |-> parseOk, hits |-> hits,
     error |-> IF status = 0 THEN TransportError("http://qdrant:6333") ELSE ""]

ErrorStatuses == {429, 503, 500}

UpsertAnswers ==
    {Answer(0, "", TRUE, <<>>), Answer(200, "", TRUE, <<>>)}
    \cup {Answer(st, b, TRUE, <<>>) : st \in ErrorStatuses, b \in Bodies}

\* The configured provider and what its endpoint answers to the POST
ProviderConfigs ==
    {[type |-> "ollama", keyEmpty |-> TRUE], [type |-> "openai", keyEmpty |-> FALSE],
     [type |-> "claude", keyEmpty |-> FALSE], [type |-> "claude", keyEmpty |-> TRUE]}

\* What a provider's endpoint answers to the POST: the status (0: no
\* response), whether the body parses, and the vectors of the array in it
EmbedAnswer(cfg, status, parseOk, embeddings) ==
    [cfg |-> cfg, status |-> status, parseOk |-> parseOk, embeddings |-> embeddings,
     error |-> IF status = 0 THEN TransportError("http://" \o cfg.type \o ".internal")
               ELSE ""]

EmbedAnswers ==
    {EmbedAnswer(c, st, TRUE, <<<<1, 0>>>>) :
        c \in ProviderConfigs, st \in {0, 200, 401, 429, 503}}
    \cup {EmbedAnswer(c, 200, FALSE, <<>>) : c \in ProviderConfigs}

\* A mutant of first_embedding: the last vector of the array
first_embedding_last(embeddings) == embeddings[Len(embeddings)]

\* parsed.embeddings.into_iter().next(), parsed.data.into_iter().next()
first_embedding(embeddings) == Head(embeddings)

\* The outcome of an embed call that sent its request
embedded_as(ea, kind) ==
    [requests |-> 1, kind |-> kind, status |-> ea.status,
     embedding |-> IF kind = "Ok" THEN first_embedding(ea.embeddings) ELSE <<>>,
     error |-> IF kind = "HttpError" THEN ea.error ELSE ""]

\* OllamaProvider::embed
OllamaProvider_embed(ea) ==
    embedded_as(ea, IF ea.status = 0 THEN "HttpError"
                    ELSE IF ~is_success(ea.status) THEN "ProviderError"
                    ELSE IF ~ea.parseOk THEN "InvalidResponse"
                    ELSE IF ea.embeddings = <<>> THEN "InvalidResponse"
                    ELSE "Ok")

\* OpenAIProvider::embed
OpenAIProvider_embed(ea) ==
    embedded_as(ea, IF ea.status = 0 THEN "HttpError"
                    ELSE IF ea.status = 401 \/ ea.status = 403 THEN "AuthenticationError"
                    ELSE IF ~is_success(ea.status) THEN "ProviderError"
                    ELSE IF ~ea.parseOk THEN "InvalidResponse"
                    ELSE IF ea.embeddings = <<>> THEN "InvalidResponse"
                    ELSE "Ok")

\* ClaudeProvider::embed: with an empty api_key no request is sent
ClaudeProvider_embed(ea) ==
    IF ea.cfg.keyEmpty THEN [NoEmbed EXCEPT !.kind = "AuthenticationError"]
    ELSE embedded_as(ea, IF ea.status = 0 THEN "HttpError"
                         ELSE IF ea.status = 401 \/ ea.status = 403
                              THEN "AuthenticationError"
                         ELSE IF ~is_success(ea.status) THEN "ProviderError"
                         ELSE IF ~ea.parseOk THEN "InvalidResponse"
                         ELSE IF ea.embeddings = <<>> THEN "InvalidResponse"
                         ELSE "Ok")

\* provider.embed(text) on the provider build_provider made of the
\* configuration: the requests sent and the outcome
Provider_embed(ea) ==
    IF ea.cfg.type = "ollama" THEN OllamaProvider_embed(ea)
    ELSE IF ea.cfg.type = "openai" THEN OpenAIProvider_embed(ea)
    ELSE ClaudeProvider_embed(ea)

\* The id arm of From<QdrantHit>
hit_id(id) ==
    CASE id.t = "String" -> id.v
      [] id.t = "Number" -> ToString(id.v)
      [] OTHER -> "null"

\* A mutant of From_QdrantHit: the payload is passed on whole
From_QdrantHit_keeps_text(hit) ==
    [id |-> hit_id(hit.id), score |-> hit.score,
     text |-> IF "text" \in DOMAIN hit.payload /\ hit.payload["text"].t = "String"
              THEN hit.payload["text"].v ELSE "",
     metadata |-> hit.payload]

\* A mutant of From_QdrantHit: `session_id` is taken out of the metadata too
From_QdrantHit_strips_session(hit) ==
    [id |-> hit_id(hit.id), score |-> hit.score,
     text |-> IF "text" \in DOMAIN hit.payload /\ hit.payload["text"].t = "String"
              THEN hit.payload["text"].v ELSE "",
     metadata |-> [k \in DOMAIN hit.payload \ {"text", "session_id"} |-> hit.payload[k]]]

\* impl From<QdrantHit> for SearchResult
From_QdrantHit(hit) ==
    [id |-> hit_id(hit.id), score |-> hit.score,
     text |-> IF "text" \in DOMAIN hit.payload /\ hit.payload["text"].t = "String"
              THEN hit.payload["text"].v ELSE "",
     metadata |-> [k \in DOMAIN hit.payload \ {"text"} |-> hit.payload[k]]]

\* parsed.result.into_iter().map(SearchResult::from).collect()
collect_results(hits) == [i \in 1..Len(hits) |-> From_QdrantHit(hits[i])]

\* A mutant of QdrantStore_search: the results are ranked by score
QdrantStore_search_ranked(op, answer) ==
    [op EXCEPT !.calls = Append(@, "search"), !.answer = answer, !.result = "Ok",
               !.results = [i \in 1..Len(answer.hits) |->
                               From_QdrantHit(answer.hits[Len(answer.hits) + 1 - i])]]

\* A mutant of QdrantStore_search: a request that got no success is sent again
QdrantStore_search_retries(op, answer) ==
    IF is_success(answer.status)
    THEN [op EXCEPT !.calls = Append(@, "search"), !.answer = answer, !.result = "Ok",
                    !.results = collect_results(answer.hits)]
    ELSE [op EXCEPT !.calls = @ \o <<"search", "search">>, !.answer = answer, !.result = "Ok"]

\* QdrantStore::search(vector, limit, score_threshold) given Qdrant's answer
QdrantStore_search(op, answer) ==
    LET sent == [op EXCEPT !.calls = Append(@, "search"), !.answer = answer]
    IN  IF answer.status = 0 THEN [sent EXCEPT !.result = "Http"]
        ELSE IF ~is_success(answer.status)
        THEN [sent EXCEPT !.result = "Api", !.status = answer.status,
                          !.message = api_error_message(answer.body)]
        ELSE IF ~answer.parseOk THEN [sent EXCEPT !.result = "InvalidResponse"]
        ELSE [sent EXCEPT !.result = "Ok", !.results = collect_results(answer.hits)]

\* body.limit.unwrap_or(DEFAULT_SEARCH_LIMIT)
DEFAULT_SEARCH_LIMIT == 5

\* search_memory_qdrant(query, body) with the collaborators' answers
search_memory_qdrant(provider, text, limit, ea, answer) ==
    LET op == [Op("search_memory_qdrant", text, NoMeta, None, None) EXCEPT !.limit = limit]
        embedded == [op EXCEPT !.calls = <<"embed">>, !.embed = Provider_embed(ea)]
    IN  IF ~require_non_empty_text(text) THEN [op EXCEPT !.result = "BadRequest"]
        ELSE IF resolve_store_and_provider(provider) # "Ok"
             THEN [op EXCEPT !.result = resolve_store_and_provider(provider)]
        ELSE IF embedded.embed.kind # "Ok" THEN [embedded EXCEPT !.result = "EmbeddingError"]
        ELSE QdrantStore_search(embedded, answer)

\* store_memory_qdrant with the provider's and Qdrant's whole answers: the
\* outcome of the handler, with what was asked of the collaborators and the
\* message of an Api error.
store_memory_qdrant_with(key, provider, text, id, session_id, metadata, dbOk, ea, genId, answer) ==
    LET e == Provider_embed(ea)
        r == store_memory_qdrant(key, provider, text, id, session_id, metadata, dbOk,
                                 e.kind = "Ok", genId, answer.status)
        embedCalled == \E i \in 1..Len(r.calls) : r.calls[i] = "embed"
        upsertSent == \E i \in 1..Len(r.calls) : r.calls[i] = "upsert"
    IN  [r EXCEPT !.apiKey = key,
                  !.embed = IF embedCalled THEN e ELSE NoEmbed,
                  !.answer = IF upsertSent THEN answer ELSE NoAnswer,
                  !.message = IF r.result = "Api" THEN api_error_message(answer.body) ELSE ""]

\* The same for a request with the text "t1", no X-Api-Key header and no
\* provider named, while the session store answers
store_memory_qdrant_answered(id, session_id, metadata, ea, genId, answer) ==
    store_memory_qdrant_with(None, None, "t1", id, session_id, metadata, TRUE, ea, genId,
                             answer)

\* POST /api/memory against the collection: a point Qdrant accepted is in
\* the collection under its id; a request that got no response may or may
\* not have been applied.
RemoteStore ==
    /\ phase = "serving"
    /\ Idle
    /\ \E id \in PointIds, session_id \in {None, "s1"}, metadata \in EntryMetadatas,
          ea \in EmbedAnswers, answer \in UpsertAnswers :
          LET op == store_memory_qdrant_answered(id, session_id, metadata, ea,
                                                 GenId(nextId), answer)
              upserted == MapInsert(points, op.point.id, Json(op.point.payload))
          IN  /\ id = None => nextId <= MaxGenerated
              /\ lastOp' = op
              /\ nextId' = IF id = None /\ op.point # NoPoint THEN nextId + 1 ELSE nextId
              /\ points' \in (IF op.result = "Ok" THEN {upserted}
                              ELSE IF op.result = "Http" THEN {points, upserted}
                              ELSE {points})
    /\ UNCHANGED <<entries, iterOrder, rwlock, threads, sessionStoreConfigured,
                   session_api_key, registry>>
    /\ UNCHANGED provVars

\* Hits that are not points of this gateway: a numeric id with a `text`
\* that is no string, and an id that is neither string nor number with no
\* `text` at all.
ForeignHits ==
    {[id |-> Num(7), payload |-> [x \in {"text"} |-> Num(3)]],
     [id |-> Null, payload |-> [x \in {"k"} |-> Str("m1")]]}

\* The hits Qdrant can return one of
HitPool == {[id |-> Str(i), payload |-> points[i]] : i \in DOMAIN points} \cup ForeignHits

\* The search responses: up to MaxHits hits, in an order of Qdrant's
\* choosing, here with scores that grow along the response.
HitSeqs ==
    UNION {{[i \in 1..n |-> [id |-> h[i].id, score |-> i, payload |-> h[i].payload]] :
               h \in [1..n -> HitPool]} : n \in 0..MaxHits}

SearchAnswers ==
    {Answer(0, "", TRUE, <<>>), Answer(200, "", FALSE, <<>>)}
    \cup {Answer(st, b, TRUE, <<>>) : st \in ErrorStatuses, b \in Bodies}
    \cup {Answer(200, "", TRUE, hits) : hits \in HitSeqs}

\* POST /api/search
RemoteSearch ==
    /\ phase = "serving"
    /\ Idle
    /\ \E provider \in ProviderNames, text \in Texts, limit \in {1, DEFAULT_SEARCH_LIMIT},
          ea \in EmbedAnswers, answer \in SearchAnswers :
          lastOp' = search_memory_qdrant(provider, text, limit, ea, answer)
    /\ UNCHANGED <<entries, iterOrder, nextId, rwlock, threads, points,
                   sessionStoreConfigured, session_api_key, registry>>
    /\ UNCHANGED provVars

NextQdrant ==
    \/ RemoteStore
    \/ RemoteSearch
    \/ Respond

\* A serving process with Qdrant and the session store configured
InitQdrant ==
    /\ InitServing
    /\ qdrantConfigured
    /\ sessionStoreConfigured
    /\ session_api_key = None

SpecQdrant == InitQdrant /\ [][NextQdrant]_vars

----------------------------------------------------------------------------
(* error.rs: the response an error becomes. The message is the sequence of *)
(* the parts its Display puts together.                                    *)

Response(status, message) == [status |-> status, message |-> message]

\* impl IntoResponse for EmbeddingError, for the error of a provider call:
\* HttpError and InvalidResponse fall to the `_` arm
EmbeddingError_into_response(e) ==
    IF e.kind = "AuthenticationError"
    THEN Response(401, <<"Authentication failed: missing or invalid API key">>)
    ELSE IF e.kind = "ProviderError"
    THEN Response(e.status, <<"Provider returned error: ", ToString(e.status), " - ">>)
    ELSE IF e.kind = "HttpError"
    THEN Response(500, <<"HTTP request failed: ", e.error>>)
    ELSE Response(500, <<"Invalid response from provider: ">>)

\* impl IntoResponse for VectorStoreError and for EmbeddingError, and the
\* status of a handler's Ok: what the caller gets for a handled request
into_response(op) ==
    IF op.result = "Ok" THEN Response(200, <<>>)
    ELSE IF op.result = "Created" THEN Response(201, <<>>)
    ELSE IF op.result = "NoContent" THEN Response(204, <<>>)
    ELSE IF op.result = "MemoryNotFound" THEN Response(404, <<"Memory entry '", "' not found">>)
    ELSE IF op.result = "EmbeddingError" THEN EmbeddingError_into_response(op.embed)
    ELSE IF op.result = "ProviderNotFound"
    THEN Response(400, <<"Provider '", "' is not configured">>)
    ELSE IF op.result = "NotConfigured" THEN Response(503, <<"Vector store not configured">>)
    ELSE IF op.result = "BadRequest" THEN Response(400, <<"Bad request: ">>)
    ELSE IF op.result = "Unauthorized" THEN Response(401, <<"Unauthorized: ">>)
    ELSE IF op.result = "InternalDependencyError"
    THEN Response(500, <<"Internal dependency error: ">>)
    ELSE IF op.result = "Api"
    THEN Response(op.answer.status,
                  <<"Qdrant API error: ", ToString(op.answer.status), " - ", op.message>>)
    ELSE IF op.result = "Http" THEN Response(500, <<"HTTP request failed: ", op.answer.error>>)
    ELSE Response(500, <<"Invalid response from Qdrant: ">>)

----------------------------------------------------------------------------
(* routes.rs: POST /api/embed, over registries that differ in the names    *)
(* registered and in the default, and provider answers that differ in the  *)
(* status and in the array of vectors.                                     *)

\* embed(query, body) with the provider's answer: `key` is the registry key
\* of the provider that was called, `asked` what its endpoint answered
embed(provider, text, ea) ==
    LET op == [Op("embed", text, NoMeta, None, None) EXCEPT !.provider = provider]
        provider_key == IF provider = None THEN registry.default ELSE provider
        found == ProviderRegistry_get(provider_key)
        embedded == [op EXCEPT !.calls = <<"embed">>, !.embed = Provider_embed(ea),
                               !.key = found, !.asked = ea]
    IN  IF ~require_non_empty_text(text) THEN [op EXCEPT !.result = "BadRequest"]
        ELSE IF found = "ProviderNotFound" THEN [op EXCEPT !.result = "ProviderNotFound"]
        ELSE IF embedded.embed.kind # "Ok" THEN [embedded EXCEPT !.result = "EmbeddingError"]
        ELSE [embedded EXCEPT !.result = "Ok", !.query = embedded.embed.embedding]

\* The registries a configuration can give: the default registered, the
\* default not registered, one provider only
Registries ==
    {ProviderRegistry_from_config({"ollama", "openai"}, "ollama"),
     ProviderRegistry_from_config({"openai", "claude"}, "ollama"),
     ProviderRegistry_from_config(RegisteredProviders, default_provider)}

EmbedProviderNames == {None, "ollama", "openai", "nope"}

\* The arrays of vectors in a response that parses
EmbeddingArrays == {<<>>, <<<<1, 0>>>>, <<<<1, 0>>, <<0, 1>>>>, <<<<0, 1>>, <<1, 0>>>>}

ProviderStatuses == {0, 401, 403, 429, 500}

ProviderAnswers ==
    {EmbedAnswer(c, st, TRUE, <<>>) : c \in ProviderConfigs, st \in ProviderStatuses}
    \cup {EmbedAnswer(c, 200, TRUE, a) : c \in ProviderConfigs, a \in EmbeddingArrays}
    \cup {EmbedAnswer(c, 200, FALSE, <<>>) : c \in ProviderConfigs}

\* POST /api/embed
EmbedText ==
    /\ phase = "serving"
    /\ Idle
    /\ \E provider \in EmbedProviderNames, text \in Texts, ea \in ProviderAnswers :
          lastOp' = embed(provider, text, ea)
    /\ UNCHANGED <<entries, iterOrder, nextId, rwlock, threads, points,
                   sessionStoreConfigured, session_api_key, registry>>
    /\ UNCHANGED provVars

\* A caller looks a provider up: registry.get(name), the name given or absent
GetProvider ==
    /\ phase = "serving"
    /\ Idle
    /\ \E name \in EmbedProviderNames :
          LET found == ProviderRegistry_get(name)
              op == [Op("get", "", NoMeta, None, None) EXCEPT !.provider = name]
          IN  lastOp' = IF found = "ProviderNotFound"
                        THEN [op EXCEPT !.result = "ProviderNotFound"]
                        ELSE [op EXCEPT !.result = "Ok", !.key = found]
    /\ UNCHANGED <<entries, iterOrder, nextId, rwlock, threads, points,
                   sessionStoreConfigured, session_api_key, registry>>
    /\ UNCHANGED provVars

NextEmbed ==
    \/ EmbedText
    \/ GetProvider
    \/ Respond

InitEmbed ==
    /\ InitServingWith(Registries)
    /\ ~qdrantConfigured
    /\ ~sessionStoreConfigured
    /\ session_api_key = None

SpecEmbed == InitEmbed /\ [][NextEmbed]_vars

----------------------------------------------------------------------------
(* routes.rs: the five endpoints that embed a text, in processes that      *)
(* differ in whether Qdrant, the session store and the session API key are *)
(* configured.                                                             *)

GatewayMetadatas == {NoMeta, [x \in {"session_id"} |-> "m1"]}

GatewayEmbedAnswers ==
    {EmbedAnswer(c, st, TRUE, <<<<1, 0>>>>) :
        c \in {[type |-> "ollama", keyEmpty |-> TRUE], [type |-> "openai", keyEmpty |-> FALSE]},
        st \in {0, 200, 401}}

GatewayUpsertAnswers ==
    {Answer(0, "", TRUE, <<>>), Answer(200, "", TRUE, <<>>), Answer(503, "boom", TRUE, <<>>)}

\* POST /api/memory
GatewayStoreMemoryQdrant ==
    /\ phase = "serving"
    /\ Idle
    /\ \E key \in ApiKeys, provider \in ProviderNames, text \in Texts,
          session_id \in SessionIds, metadata \in GatewayMetadatas, dbOk \in BOOLEAN,
          ea \in GatewayEmbedAnswers, answer \in GatewayUpsertAnswers :
          LET op == store_memory_qdrant_with(key, provider, text, "u1", session_id, metadata,
                                             dbOk, ea, GenId(nextId), answer)
              upserted == MapInsert(points, op.point.id, Json(op.point.payload))
          IN  /\ lastOp' = op
              /\ points' \in (IF op.result = "Ok" THEN {upserted}
                              ELSE IF op.result = "Http" THEN {points, upserted}
                              ELSE {points})
    /\ UNCHANGED <<entries, iterOrder, nextId, rwlock, threads, sessionStoreConfigured,
                   session_api_key, registry>>
    /\ UNCHANGED provVars

\* POST /memory and GET /memory/search
GatewayStore == StoreMemory(Texts, {NoMeta}, {None}, UnitVecs, MaxGatewayStores)
GatewaySearch == SearchMemory(Texts, {None}, UnitVecs)

NextGateway ==
    \/ EmbedText
    \/ GatewayStoreMemoryQdrant
    \/ RemoteSearch
    \/ GatewayStore
    \/ GatewaySearch
    \/ Respond

SpecGateway == InitServing /\ [][NextGateway]_vars

----------------------------------------------------------------------------
(* Reading the log of an ensure_collection run                             *)

Positions(e) == {i \in 1..Len(log) : log[i].ev = e}

\* The log entry at i reports a transient failure: 429, 503 or no response.
TransientAt(i) ==
    \/ log[i].ev = "neterr"
    \/ log[i].ev = "resp" /\ log[i].n \in {429, 503}

\* The log entry at i reports a response that is an error and is not transient.
FatalAt(i) ==
    /\ log[i].ev = "resp"
    /\ log[i].n \notin {429, 503}
    /\ i > 1
    /\ \/ log[i-1].ev = "GET" /\ log[i].n \notin {200, 404}
       \/ log[i-1].ev = "PUT" /\ (log[i].n < 200 \/ log[i].n > 299)

\* The seconds slept between attempts, in order.
Slept == SelectSeq(log, LAMBDA x : x.ev = "slept")

Backoff == <<1, 2, 4, 8>>

----------------------------------------------------------------------------
(* C1: ensure_collection makes at most 5 attempts, one at a time; after a  *)
(* transient failure of attempt k (k = 1..4) it sleeps the full 2^(k-1)    *)
(* seconds (1, 2, 4, 8) before attempt k+1 starts; a transient failure of  *)
(* attempt 5 is returned as the error and nothing more is sent.            *)
C1_AtMostFiveSequentialAttemptsWithBackoff ==
    /\ attempts <= 5
    /\ Cardinality(Positions("GET")) = attempts
    /\ Cardinality(inflight) <= 1
    /\ \A i \in Positions("GET") :
          IF i = 1 THEN log[i].n = 1
          ELSE /\ i > 2
               /\ log[i].n \in 2..5
               /\ log[i-1].ev = "slept"
               /\ log[i-1].n >= Backoff[log[i].n - 1]
               /\ TransientAt(i - 2)
    /\ \A i \in 1..Len(log) :
          TransientAt(i) =>
             IF attempts < 5 \/ i < Len(log)
             THEN IF i = Len(log)
                  THEN ec = "backoff" /\ sleepSecs = Backoff[attempts] /\ inflight = {}
                  ELSE log[i+1].ev = "slept"
             ELSE /\ ec = "failed"
                  /\ ecResult.kind \in {"Http", "Api"}
                  /\ ecResult.status = (IF log[i].ev = "neterr" THEN 0 ELSE log[i].n)
                  /\ inflight = {}

\* All five attempts fail transiently, the last one by a network error.
C1_Witness ==
    /\ ec = "failed"
    /\ attempts = 5
    /\ ecResult = HttpErr
    /\ Slept = <<Ev("slept", 1), Ev("slept", 2), Ev("slept", 4), Ev("slept", 8)>>

(* C2: a non-transient error response (any status but 429 and 503) of the  *)
(* check or of the create makes ensure_collection return that Api error at *)
(* once: no sleep and no further request follows, whatever the attempt.    *)
C2_FatalErrorReturnsImmediately ==
    \A i \in 1..Len(log) :
       FatalAt(i) =>
          /\ i = Len(log)
          /\ ec = "failed"
          /\ ecResult = [kind |-> "Api", status |-> log[i].n]
          /\ inflight = {}
          /\ phase = "aborted"

\* The create request of the third attempt is answered 500.
C2_Witness ==
    /\ ec = "failed"
    /\ attempts = 3
    /\ Len(log) > 1
    /\ log[Len(log)] = Ev("resp", 500)
    /\ log[Len(log) - 1].ev = "PUT"

(* C3: when the existence check fails transiently n <= 4 times and then    *)
(* answers 200, ensure_collection succeeds after exactly n+1 attempts and  *)
(* the delays slept between them are strictly increasing.                  *)
C3_SucceedsAfterTransientCheckFailures ==
    (/\ Len(log) > 0
     /\ log[Len(log)] = Ev("resp", 200)
     /\ Positions("PUT") = {})
    => LET n == Cardinality({i \in 1..Len(log) : TransientAt(i)})
       IN  /\ n <= 4
           /\ ec = "done"
           /\ ecResult = OkResult
           /\ attempts = n + 1
           /\ Cardinality(Positions("GET")) = n + 1
           /\ Len(Slept) = n
           /\ \A j \in 1..Len(Slept) :
                 /\ Slept[j].n > 0
                 /\ j > 1 => Slept[j].n > Slept[j-1].n

\* 503, 503, then 200.
C3_Witness ==
    /\ ec = "done"
    /\ attempts = 3
    /\ log = <<Ev("GET", 1), Ev("resp", 503), Ev("slept", 1),
               Ev("GET", 2), Ev("resp", 503), Ev("slept", 2),
               Ev("GET", 3), Ev("resp", 200)>>

(* C4: an attempt sends the create request only when its own existence     *)
(* check returned 404, and none when the check returned 200; over retries  *)
(* and over a repeated run the collection is created at most once.         *)
C4_CreateOnlyAfter404AtMostOnce ==
    /\ \A i \in Positions("PUT") :
          /\ i > 2
          /\ log[i-1] = Ev("resp", 404)
          /\ log[i-2] = Ev("GET", log[i].n)
    /\ \A i \in 1..Len(log) :
          (log[i] = Ev("resp", 200) /\ log[i-1].ev = "GET") => i = Len(log)
    /\ created <= 1
    /\ created = 1 => collectionExists

\* A second process start finds the collection a retried first run created.
C4_Witness ==
    /\ runs = 2
    /\ created = 1
    /\ ec = "done"
    /\ log = <<Ev("GET", 1), Ev("resp", 200)>>

(* C5: with a remote store configured, requests are accepted only after    *)
(* ensure_collection returned success; when it returns an error, startup   *)
(* aborts and no request is served.                                        *)
C5_ServesOnlyAfterProvisioning ==
    /\ (qdrantConfigured /\ (phase = "serving" \/ served > 0)) =>
          (ec = "done" /\ ecResult = OkResult)
    /\ ec = "failed" => (phase = "aborted" /\ served = 0)
    /\ served > 0 => phase = "serving"

\* Requests are served after provisioning needed a retry.
C5_Witness ==
    /\ qdrantConfigured
    /\ served > 0
    /\ attempts > 1

\* Startup was aborted by a provisioning error.
C5_WitnessAborted == phase = "aborted" /\ served = 0 /\ ec = "failed"

----------------------------------------------------------------------------
(* Reading a handled request                                               *)

Reserved(metadata) == DOMAIN metadata \cap {"text", "session_id"} # {}

StoredQdrant == lastOp.op = "store_memory_qdrant"

\* The ids of the entries that pass session filter s
Matching(s) == {id \in DOMAIN entries : s = None \/ entries[id].session = s}

ResultIds(results) == {results[i].id : i \in 1..Len(results)}

Searched == lastOp.op = "search_memory" /\ lastOp.result = "Ok"

(* C6: a store to the remote store whose metadata holds the reserved key   *)
(* `text` or `session_id` fails with BadRequest, and no request is sent to *)
(* Qdrant for it.                                                          *)
C6_ReservedKeyUpsertRejected ==
    (StoredQdrant /\ Reserved(lastOp.metadata)) =>
        /\ lastOp.result = "BadRequest"
        /\ \A i \in 1..Len(lastOp.calls) : lastOp.calls[i] # "upsert"
        /\ lastOp.point = NoPoint
        /\ lastOp.id = None

\* A request with a session and `session_id` among its metadata, which would
\* otherwise have been stored, is refused.
C6_Witness ==
    /\ StoredQdrant
    /\ qdrantConfigured /\ sessionStoreConfigured
    /\ lastOp.text = "t1"
    /\ lastOp.session = "s1"
    /\ "session_id" \in DOMAIN lastOp.metadata
    /\ lastOp.result = "BadRequest"

(* C7 as stated: a store request to either store whose metadata holds a    *)
(* reserved key is refused as a bad request before any collaborator is     *)
(* called.                                                                 *)
C7_ReservedKeyRejectedByBothStores ==
    (lastOp.op \in {"store_memory_qdrant", "store_memory"} /\ Reserved(lastOp.metadata)) =>
        (lastOp.result = "BadRequest" /\ lastOp.calls = <<>>)

(* C7, amended: a POST /api/memory request whose metadata holds a reserved *)
(* key is refused as a bad request before any provider call, session       *)
(* lookup or Qdrant request, and leaves the in-process store and Qdrant    *)
(* untouched; POST /memory refuses as a bad request only an empty text.    *)
C7_ReservedKeyRejectedAtRemoteBoundary ==
    [][/\ (lastOp'.op = "store_memory_qdrant" /\ Reserved(lastOp'.metadata)) =>
             /\ lastOp'.result = "BadRequest"
             /\ lastOp'.calls = <<>>
             /\ lastOp'.point = NoPoint
             /\ UNCHANGED <<entries, iterOrder, nextId>>
       /\ (lastOp'.op = "store_memory" /\ lastOp'.result = "BadRequest") =>
             /\ lastOp'.text = ""
             /\ UNCHANGED <<entries, iterOrder, nextId>>
      ]_vars

\* A refused remote request that names an existing session, with everything
\* configured and an entry in the in-process store.
C7_Witness ==
    /\ StoredQdrant
    /\ qdrantConfigured /\ sessionStoreConfigured
    /\ Reserved(lastOp.metadata)
    /\ lastOp.text = "t1"
    /\ lastOp.session = "s1"
    /\ lastOp.result = "BadRequest"
    /\ lastOp.calls = <<>>
    /\ DOMAIN entries # {}

(* C8: every point sent to Qdrant carries the request's text under `text`  *)
(* and, exactly when the request names a session, that validated session   *)
(* under `session_id`; the caller's metadata supplies neither. In the      *)
(* in-process store an entry's text and session tag are the request's,     *)
(* whatever its metadata holds.                                            *)
C8_SystemFieldsNotOverridable ==
    /\ (StoredQdrant /\ lastOp.point # NoPoint) =>
          LET payload == lastOp.point.payload
          IN  /\ "text" \in DOMAIN payload
              /\ payload["text"] = lastOp.text
              /\ "session_id" \in DOMAIN payload <=> lastOp.session # None
              /\ lastOp.session # None =>
                    (payload["session_id"] = lastOp.session /\ lastOp.session \in Sessions)
              /\ DOMAIN payload \ {"text", "session_id"} = DOMAIN lastOp.metadata
              /\ \A k \in DOMAIN lastOp.metadata : payload[k] = lastOp.metadata[k]
    /\ (lastOp.op = "store_memory" /\ lastOp.result = "Created") =>
          /\ lastOp.memId \in DOMAIN entries
          /\ entries[lastOp.memId].text = lastOp.text
          /\ entries[lastOp.memId].session = lastOp.session
          /\ entries[lastOp.memId].metadata = lastOp.metadata

\* A point with a session and caller metadata was stored.
C8_Witness ==
    /\ StoredQdrant
    /\ lastOp.result = "Ok"
    /\ lastOp.session = "s1"
    /\ "k" \in DOMAIN lastOp.metadata
    /\ lastOp.point.payload["session_id"] = "s1"

(* C9: search returns the entries passing the session filter in            *)
(* non-increasing score order, cut to the first `limit`: it returns        *)
(* min(limit, matching entries) results, each a matching entry with its    *)
(* cosine score, and no matching entry left out outscores a returned one.  *)
C9_SearchRankedAndTruncated ==
    Searched =>
        LET res == lastOp.results
            m == Matching(lastOp.session)
            scoreOf(id) == cosine_similarity(lastOp.query, entries[id].embedding)
        IN  /\ Len(res) = MinOf(lastOp.limit, Cardinality(m))
            /\ \A i \in 1..Len(res) :
                  /\ res[i].id \in m
                  /\ res[i].score = scoreOf(res[i].id)
                  /\ \A j \in 1..Len(res) : i < j =>
                        (res[i].id # res[j].id /\ ~ScoreGT(res[j].score, res[i].score))
            /\ \A id \in m \ ResultIds(res) :
                  \A i \in 1..Len(res) : ~ScoreGT(scoreOf(id), res[i].score)

\* Of two entries the one the map iterates last scores higher and is the
\* single result of a search with limit 1.
C9_Witness ==
    /\ Searched
    /\ lastOp.limit = 1
    /\ lastOp.session = None
    /\ Len(iterOrder) = 2
    /\ Len(lastOp.results) = 1
    /\ lastOp.results[1].id = iterOrder[2]
    /\ ScoreGT(lastOp.results[1].score,
               cosine_similarity(lastOp.query, entries[iterOrder[1]].embedding))

(* C10: with a session filter s, search returns only entries tagged s, so  *)
(* an untagged entry matches no filter; without a filter every stored      *)
(* entry is a candidate.                                                   *)
C10_SessionFilter ==
    Searched =>
        /\ lastOp.session # None =>
              \A i \in 1..Len(lastOp.results) :
                  /\ lastOp.results[i].session = lastOp.session
                  /\ entries[lastOp.results[i].id].session = lastOp.session
        /\ lastOp.limit >= Cardinality(DOMAIN entries) =>
              ResultIds(lastOp.results) =
                 IF lastOp.session = None THEN DOMAIN entries
                 ELSE {id \in DOMAIN entries : entries[id].session = lastOp.session}

\* An untagged entry and an entry tagged "a": the filter "a" returns one.
C10_Witness ==
    /\ Searched
    /\ lastOp.session = "a"
    /\ lastOp.limit = 2
    /\ Len(lastOp.results) = 1
    /\ \E id \in DOMAIN entries : entries[id].session = None

----------------------------------------------------------------------------
(* C11: delete(id) answers true exactly when the id is in the map at the   *)
(* call and removes that entry alone; an id once deleted is never in the   *)
(* map again, so a second delete of it answers false, and no search        *)
(* returns an id that is not in the map.                                   *)
C11_DeleteRemovesOnce ==
    [][/\ lastOp'.op = "delete_memory" =>
             /\ lastOp'.result = "NoContent" <=> lastOp'.memId \in DOMAIN entries
             /\ DOMAIN entries' = DOMAIN entries \ {lastOp'.memId}
             /\ \A i \in DOMAIN entries' : entries'[i] = entries[i]
       /\ \A id \in 1..(nextId - 1) : id \notin DOMAIN entries => id \notin DOMAIN entries'
       /\ (lastOp'.op = "search_memory" /\ lastOp'.result = "Ok") =>
             ResultIds(lastOp'.results) \subseteq DOMAIN entries
      ]_vars

\* An id that was stored and deleted is deleted a second time, with another
\* entry still in the store.
C11_Witness ==
    /\ lastOp.op = "delete_memory"
    /\ lastOp.result = "MemoryNotFound"
    /\ lastOp.memId < nextId
    /\ lastOp.memId \notin DOMAIN entries
    /\ DOMAIN entries # {}

(* C12: an entry is never changed between its store and its delete: every  *)
(* step leaves the entries it keeps as they were, the map gains an id only *)
(* by a store, which returns a fresh id and enters the request's text,     *)
(* metadata and session tag under it, and loses an id only by a delete of  *)
(* that id; an unfiltered search with a limit no smaller than the store    *)
(* returns exactly the ids in the map, each with its entry's text,         *)
(* metadata and session tag.                                               *)
C12_EntriesNeverMutated ==
    [][/\ \A id \in DOMAIN entries \cap DOMAIN entries' : entries'[id] = entries[id]
       /\ DOMAIN entries' # DOMAIN entries =>
             \/ /\ lastOp'.op = "store_memory" /\ lastOp'.result = "Created"
                /\ lastOp'.memId \notin 1..(nextId - 1)
                /\ DOMAIN entries' = DOMAIN entries \cup {lastOp'.memId}
                /\ entries'[lastOp'.memId].id = lastOp'.memId
                /\ entries'[lastOp'.memId].text = lastOp'.text
                /\ entries'[lastOp'.memId].metadata = lastOp'.metadata
                /\ entries'[lastOp'.memId].session = lastOp'.session
             \/ /\ lastOp'.op = "delete_memory"
                /\ DOMAIN entries' = DOMAIN entries \ {lastOp'.memId}
       /\ (/\ lastOp'.op = "search_memory" /\ lastOp'.result = "Ok"
           /\ lastOp'.session = None
           /\ lastOp'.limit >= Cardinality(DOMAIN entries)) =>
             LET res == lastOp'.results
             IN  /\ ResultIds(res) = DOMAIN entries
                 /\ Len(res) = Cardinality(DOMAIN entries)
                 /\ \A i \in 1..Len(res) :
                       /\ res[i].text = entries[res[i].id].text
                       /\ res[i].metadata = entries[res[i].id].metadata
                       /\ res[i].session = entries[res[i].id].session
      ]_vars

\* The first entry was deleted; a search finds the second alone, with the
\* text, metadata and tag it was stored with.
C12_Witness ==
    /\ Searched
    /\ lastOp.session = None
    /\ DOMAIN entries = {2}
    /\ Len(lastOp.results) = 1
    /\ lastOp.results[1].id = 2
    /\ lastOp.results[1].text = "t2"
    /\ lastOp.results[1].session = "a"
    /\ lastOp.results[1].metadata # NoMeta

----------------------------------------------------------------------------
(* C13: searches may walk the map together, but while a store or delete is *)
(* inside its mutation of the map no other thread walks or mutates it: at  *)
(* most one thread is writing, and then none is reading; the lock's        *)
(* holders are exactly the threads that access the map.                    *)
C13_ReadersShareWritersExclude ==
    /\ Cardinality(Writing) <= 1
    /\ Writing # {} => Reading = {}
    /\ rwlock.readers = Reading
    /\ Writing = (IF rwlock.writer = None THEN {} ELSE {rwlock.writer})

\* Two searches walk a non-empty map at the same time.
C13_Witness ==
    /\ Cardinality(Reading) >= 2
    /\ DOMAIN entries # {}
    /\ \E t \in Reading : Len(threads[t].seen) = 1

(* C14: a search that runs among concurrent stores and deletes reads no    *)
(* entry while the map is being mutated, and returns what the same search  *)
(* returns on the map as it stood when the search took the lock, every     *)
(* entry it read being an entry of that map with all its fields; a store   *)
(* is never inside its insertion while another write is inside its own.    *)
C14_SearchSeesOneMapState ==
    /\ \A t \in Threads :
          Pc(t) = "searched" =>
             /\ ~threads[t].torn
             /\ threads[t].seen = threads[t].snap
             /\ threads[t].result = search_values(threads[t].snap, threads[t].query,
                                                  threads[t].limit, threads[t].session)
    /\ \A t \in Threads : ~threads[t].torn
    /\ \A t, u \in Threads :
          (t # u /\ Pc(t) = "store_writing") => Pc(u) \notin WritingPcs

\* A search has returned both entries of the map it locked, and a write that
\* was waiting has changed the map since.
C14_Witness ==
    \E t \in Threads :
       /\ Pc(t) = "searched"
       /\ Len(threads[t].result) = 2
       /\ threads[t].snap # Values

----------------------------------------------------------------------------
(* Reading a handled remote request                                        *)

RemoteSearched == lastOp.op = "search_memory_qdrant" /\ lastOp.result = "Ok"

RemoteOp == lastOp.op \in {"store_memory_qdrant", "search_memory_qdrant"}

\* How often call c is in the calls of the handled request
Count(c) == Cardinality({i \in 1..Len(lastOp.calls) : lastOp.calls[i] = c})

\* The hit is a point this gateway stored with a session.
StoredWithSession(hit) ==
    /\ hit.id.t = "String"
    /\ hit.id.v \in DOMAIN points
    /\ "session_id" \in DOMAIN hit.payload

(* C15: a remote search returns one result per hit of the response, in the *)
(* response's order, each with its hit's id and unchanged score.           *)
C15_RemoteSearchKeepsBackendOrder ==
    RemoteSearched =>
        LET hits == lastOp.answer.hits
            res == lastOp.results
        IN  /\ Len(res) = Len(hits)
            /\ \A i \in 1..Len(res) :
                  /\ res[i].score = hits[i].score
                  /\ hits[i].id.t = "String" => res[i].id = hits[i].id.v
                  /\ hits[i].id.t = "Number" => res[i].id = ToString(hits[i].id.v)

\* Two different hits, the lower score first, come back in that order.
C15_Witness ==
    /\ RemoteSearched
    /\ Len(lastOp.results) = 2
    /\ lastOp.results[1].id # lastOp.results[2].id
    /\ lastOp.results[1].score < lastOp.results[2].score
    /\ lastOp.results[1].id \in DOMAIN points

(* C16: each result's text is its hit's payload `text` when that is a      *)
(* string and the empty string when it is absent or no string, its         *)
(* metadata is the payload without `text`, and a well-formed 2xx response  *)
(* gives a successful search whatever its hits lack.                       *)
C16_TextExtractedFromPayload ==
    /\ RemoteSearched =>
          \A i \in 1..Len(lastOp.results) :
             LET payload == lastOp.answer.hits[i].payload
                 r == lastOp.results[i]
             IN  /\ r.text = (IF "text" \in DOMAIN payload /\ payload["text"].t = "String"
                               THEN payload["text"].v ELSE "")
                 /\ DOMAIN r.metadata = DOMAIN payload \ {"text"}
                 /\ \A k \in DOMAIN r.metadata : r.metadata[k] = payload[k]
    /\ (/\ lastOp.op = "search_memory_qdrant"
        /\ is_success(lastOp.answer.status)
        /\ lastOp.answer.parseOk) => lastOp.result = "Ok"

\* A stored point and a hit without `text` in one response.
C16_Witness ==
    /\ RemoteSearched
    /\ Len(lastOp.results) = 2
    /\ lastOp.results[1].text = "t1"
    /\ "text" \notin DOMAIN lastOp.answer.hits[2].payload
    /\ lastOp.results[2].text = ""
    /\ lastOp.results[2].metadata = lastOp.answer.hits[2].payload

(* C17 as stated: no result of a remote search has `text` or `session_id`  *)
(* among its metadata.                                                     *)
C17_NoReservedKeyInResults ==
    RemoteSearched =>
        \A i \in 1..Len(lastOp.results) :
           DOMAIN lastOp.results[i].metadata \cap {"text", "session_id"} = {}

(* C17, amended: no result of a remote search has `text` among its         *)
(* metadata; the `session_id` of a point that was stored with a session    *)
(* stays in the result's metadata, with the session it was stored under.   *)
C17_OnlyTextRemovedFromResults ==
    RemoteSearched =>
        \A i \in 1..Len(lastOp.results) :
           LET hit == lastOp.answer.hits[i]
               r == lastOp.results[i]
           IN  /\ "text" \notin DOMAIN r.metadata
               /\ "session_id" \in DOMAIN hit.payload =>
                     /\ "session_id" \in DOMAIN r.metadata
                     /\ r.metadata["session_id"] = hit.payload["session_id"]

\* A point stored with session s1 is found: its result carries the session.
C17_Witness ==
    /\ RemoteSearched
    /\ Len(lastOp.results) >= 1
    /\ StoredWithSession(lastOp.answer.hits[1])
    /\ "session_id" \in DOMAIN lastOp.results[1].metadata
    /\ lastOp.results[1].metadata["session_id"] = Str("s1")
    /\ lastOp.results[1].text = "t1"

(* C18: a successful upsert returns the id of the point it sent: the       *)
(* caller's id when one was given, otherwise a generated id that no point  *)
(* of the collection has; Qdrant then holds the sent payload under it.     *)
C18_UpsertReturnsPointId ==
    [][(lastOp'.op = "store_memory_qdrant" /\ lastOp'.result = "Ok") =>
          /\ lastOp'.id # None
          /\ lastOp'.id = lastOp'.point.id
          /\ lastOp'.reqId # None => lastOp'.id = lastOp'.reqId
          /\ lastOp'.reqId = None =>
                (lastOp'.id \notin DOMAIN points /\ lastOp'.id \notin PointIds)
          /\ lastOp'.id \in DOMAIN points'
          /\ points'[lastOp'.id] = Json(lastOp'.point.payload)
      ]_vars

\* A caller-supplied id is returned while the collection holds a point
\* with a generated id.
C18_Witness ==
    /\ StoredQdrant
    /\ lastOp.result = "Ok"
    /\ lastOp.reqId = "u1"
    /\ lastOp.id = "u1"
    /\ DOMAIN points = {"u1", GenId(1)}

(* C19: when Qdrant answers an upsert or a search with a status that is no *)
(* success, the call fails with Api{status, message}: status is Qdrant's   *)
(* status and message is the response body, or the placeholder when the    *)
(* body cannot be read; no id and no results are returned.                 *)
C19_NonSuccessBecomesApiError ==
    (/\ RemoteOp
     /\ lastOp.answer # NoAnswer
     /\ lastOp.answer.status # 0
     /\ ~(lastOp.answer.status >= 200 /\ lastOp.answer.status <= 299)) =>
        /\ lastOp.result = "Api"
        /\ lastOp.status = lastOp.answer.status
        /\ lastOp.message = (IF lastOp.answer.body = Unreadable
                              THEN "<failed to read response body>"
                              ELSE lastOp.answer.body)
        /\ lastOp.id = None
        /\ lastOp.results = <<>>

\* An upsert is answered 503 with a body that cannot be read.
C19_Witness ==
    /\ StoredQdrant
    /\ lastOp.result = "Api"
    /\ lastOp.status = 503
    /\ lastOp.answer.body = Unreadable
    /\ lastOp.message = "<failed to read response body>"

(* C20: handling a remote store or search calls the provider at most once, *)
(* which sends at most one request, and sends at most one upsert or search *)
(* request; an embed, upsert or search that gets no success (429, 503, any *)
(* other error status, no response) ends the request with an error, and   *)
(* nothing is sent after it.                                               *)
C20_NoRetryOutsideProvisioning ==
    RemoteOp =>
        /\ Count("embed") <= 1
        /\ lastOp.embed.requests <= Count("embed")
        /\ Count("upsert") + Count("search") <= 1
        /\ (lastOp.embed.requests = 1 /\ ~is_success(lastOp.embed.status)) =>
              /\ lastOp.result = "EmbeddingError"
              /\ Count("upsert") + Count("search") = 0
        /\ (lastOp.answer # NoAnswer /\ ~is_success(lastOp.answer.status)) =>
              /\ lastOp.result \in {"Http", "Api"}
              /\ lastOp.id = None
              /\ lastOp.results = <<>>
              /\ lastOp.calls[Len(lastOp.calls)] \in {"upsert", "search"}

\* A search is rate limited by Qdrant after the provider answered.
C20_Witness ==
    /\ lastOp.op = "search_memory_qdrant"
    /\ lastOp.calls = <<"embed", "search">>
    /\ lastOp.answer.status = 429
    /\ lastOp.result = "Api"

----------------------------------------------------------------------------
(* Provider embed: statuses, vectors, registry                             *)

\* POST /api/embed was handled and called a provider that sent its request
Embedded == lastOp.op = "embed" /\ lastOp.embed.requests = 1

\* C21: whatever the provider's type, a 401 or 403 answer to embed gives
\* AuthenticationError, and any other non-success status gives ProviderError
\* with that status.
C21_AuthStatusesBecomeAuthenticationError ==
    (Embedded /\ lastOp.asked.status # 0 /\ ~is_success(lastOp.asked.status)) =>
        IF lastOp.asked.status \in {401, 403}
        THEN lastOp.embed.kind = "AuthenticationError"
        ELSE /\ lastOp.embed.kind = "ProviderError"
             /\ lastOp.embed.status = lastOp.asked.status

\* C21: what holds of the code: openai and claude map 401 and 403 to
\* AuthenticationError, ollama maps them to ProviderError with the status,
\* and every provider maps the other non-success statuses to ProviderError
\* with the status.
C21_OllamaKeepsAuthStatusesAsProviderError ==
    (Embedded /\ lastOp.asked.status # 0 /\ ~is_success(lastOp.asked.status)) =>
        IF lastOp.asked.status \in {401, 403} /\ lastOp.asked.cfg.type # "ollama"
        THEN lastOp.embed.kind = "AuthenticationError"
        ELSE /\ lastOp.embed.kind = "ProviderError"
             /\ lastOp.embed.status = lastOp.asked.status

\* An ollama provider was answered 401
C21_Witness ==
    /\ Embedded
    /\ lastOp.asked.cfg.type = "ollama"
    /\ lastOp.asked.status = 401
    /\ lastOp.embed.kind = "ProviderError"

\* C22: an embed whose response is a success and parses returns the first
\* vector of the response's array, and InvalidResponse when the array is
\* empty, whatever the provider's type.
C22_FirstVectorOrInvalidResponse ==
    (Embedded /\ is_success(lastOp.asked.status) /\ lastOp.asked.parseOk) =>
        IF lastOp.asked.embeddings = <<>>
        THEN /\ lastOp.result = "EmbeddingError"
             /\ lastOp.embed.kind = "InvalidResponse"
        ELSE /\ lastOp.result = "Ok"
             /\ lastOp.embed.embedding = lastOp.asked.embeddings[1]
             /\ lastOp.query = lastOp.asked.embeddings[1]

\* A response with two different vectors was answered with the first
C22_Witness ==
    /\ Embedded
    /\ lastOp.result = "Ok"
    /\ Len(lastOp.asked.embeddings) = 2
    /\ lastOp.asked.embeddings[1] # lastOp.asked.embeddings[2]
    /\ lastOp.query = lastOp.asked.embeddings[1]

\* A response with an empty array was answered with InvalidResponse
C22_WitnessEmpty ==
    /\ Embedded
    /\ is_success(lastOp.asked.status)
    /\ lastOp.asked.parseOk
    /\ lastOp.asked.embeddings = <<>>
    /\ lastOp.embed.kind = "InvalidResponse"

\* The name a lookup resolves: the name given, or the default when absent
Resolved(name) == IF name = None THEN registry.default ELSE name

\* A lookup in the registry was made: by a caller of get, or by the embed
\* handler for a request with a text
LookedUp ==
    \/ lastOp.op = "get"
    \/ lastOp.op = "embed" /\ lastOp.text # ""

\* C23: a lookup fails with ProviderNotFound exactly when the resolved name
\* (the name given, the default when none is given) is not registered, it
\* otherwise gives the provider registered under the resolved name, and no
\* step changes the registry.
C23_GetResolvesNameOrDefault ==
    /\ [](LookedUp =>
            /\ lastOp.result = "ProviderNotFound"
                   <=> Resolved(lastOp.provider) \notin registry.providers
            /\ lastOp.result # "ProviderNotFound" => lastOp.key = Resolved(lastOp.provider))
    /\ [][registry' = registry]_vars

\* get(None) gave the provider registered under the default name
C23_Witness ==
    /\ lastOp.op = "get"
    /\ lastOp.provider = None
    /\ lastOp.key = registry.default
    /\ registry.default \in registry.providers

\* get(None) failed because the default name is not registered
C23_WitnessDefaultMissing ==
    /\ lastOp.op = "get"
    /\ lastOp.provider = None
    /\ lastOp.result = "ProviderNotFound"
    /\ registry.default \notin registry.providers

----------------------------------------------------------------------------
(* The endpoints: validation, configuration, authorization, transport      *)

\* The endpoints that embed a text
EmbeddingOps ==
    {"embed", "store_memory_qdrant", "search_memory_qdrant", "store_memory", "search_memory"}

\* C24: each of the five endpoints that embed a text answers an empty text
\* with BadRequest whatever else the request holds, having resolved no
\* provider, called no provider and no session store, sent nothing to
\* Qdrant, and written neither the in-process store nor the collection.
C24_EmptyTextRejectedFirst ==
    /\ []((lastOp.op \in EmbeddingOps /\ lastOp.text = "") =>
            /\ lastOp.result = "BadRequest"
            /\ into_response(lastOp).status = 400
            /\ lastOp.calls = <<>>
            /\ lastOp.embed = NoEmbed
            /\ lastOp.answer = NoAnswer
            /\ lastOp.key = None
            /\ lastOp.point = NoPoint)
    /\ [][(lastOp'.op \in EmbeddingOps /\ lastOp'.text = "") =>
            UNCHANGED <<entries, iterOrder, nextId, points>>]_vars

\* A remote store with an empty text, a session, a wrong key and an unknown
\* provider was answered BadRequest
C24_Witness ==
    /\ lastOp.op = "store_memory_qdrant"
    /\ lastOp.text = ""
    /\ lastOp.session = "s1"
    /\ lastOp.apiKey = "bad"
    /\ session_api_key = "k1"
    /\ lastOp.result = "BadRequest"

\* POST /api/embed with an empty text and an unknown provider was answered
\* BadRequest
C24_WitnessEmbed ==
    /\ lastOp.op = "embed"
    /\ lastOp.text = ""
    /\ lastOp.provider = "nope"
    /\ lastOp.result = "BadRequest"

\* The endpoints of the remote store
RemoteOps == {"store_memory_qdrant", "search_memory_qdrant"}

\* The request handled last is a remote request that passes the handler's
\* validation: a text, no reserved metadata key, and a session only with
\* the right key, a session store that answers and a session it knows
WellFormedRemote ==
    /\ lastOp.op \in RemoteOps
    /\ lastOp.text # ""
    /\ ~Reserved(lastOp.metadata)
    /\ lastOp.session # None =>
          /\ validate_session_auth(lastOp.apiKey)
          /\ sessionStoreConfigured
          /\ lastOp.result # "InternalDependencyError"
          /\ lastOp.session \in Sessions

\* What the caller gets for NotConfigured
NotConfiguredResponse == Response(503, <<"Vector store not configured">>)

Called(c) == \E i \in 1..Len(lastOp.calls) : lastOp.calls[i] = c

C25_WitnessBackend503 ==
    /\ lastOp.result = "Api"
    /\ into_response(lastOp).status = 503

\* The request handled last is a remote store with a session_id, while a
\* session API key is configured
SessionLinkedStore ==
    /\ lastOp.op = "store_memory_qdrant"
    /\ lastOp.session # None
    /\ session_api_key # None

\* Its X-Api-Key header is missing or is not the configured key
WrongKey == SessionLinkedStore /\ lastOp.apiKey # session_api_key

\* Nothing was asked of the session store, the provider or Qdrant
NothingCalled ==
    /\ lastOp.calls = <<>>
    /\ lastOp.embed = NoEmbed
    /\ lastOp.answer = NoAnswer
    /\ lastOp.point = NoPoint

\* C26 as stated: every remote store with a session_id and a missing or
\* wrong key, while a key is configured, is answered Unauthorized, with no
\* provider call and no point written.
C26_WrongKeyAlwaysUnauthorized ==
    WrongKey => (lastOp.result = "Unauthorized" /\ NothingCalled)

\* C26: a remote store with a session_id and a missing or wrong key, while a
\* key is configured, is never accepted: it is answered Unauthorized (401)
\* when its text is non-empty and its metadata has no reserved key, and
\* BadRequest otherwise, with nothing asked of the session store, the
\* provider or Qdrant and the collection left as it is; with the configured
\* key the request is not answered Unauthorized.
C26_WrongKeyRejectedBeforeAnyCall ==
    /\ [](WrongKey =>
            /\ lastOp.result =
                   (IF lastOp.text # "" /\ ~Reserved(lastOp.metadata)
                    THEN "Unauthorized" ELSE "BadRequest")
            /\ lastOp.result = "Unauthorized" => into_response(lastOp).status = 401
            /\ NothingCalled)
    /\ []((SessionLinkedStore /\ ~WrongKey) => lastOp.result # "Unauthorized")
    /\ [][WrongKey' => points' = points]_vars

\* A request with a session, a text and a header that is not the key was
\* answered Unauthorized
C26_Witness ==
    /\ WrongKey
    /\ lastOp.apiKey = "bad"
    /\ lastOp.text # ""
    /\ lastOp.result = "Unauthorized"

\* The same with no header
C26_WitnessMissingHeader ==
    /\ WrongKey
    /\ lastOp.apiKey = None
    /\ lastOp.result = "Unauthorized"

\* A request with a session and the right key was stored
C26_WitnessAccepted ==
    /\ SessionLinkedStore
    /\ lastOp.apiKey = session_api_key
    /\ lastOp.result = "Ok"

\* A request of POST /api/embed, /api/memory or /api/search got no response
\* from the provider, or none from Qdrant
ProviderTransportFailed ==
    /\ lastOp.op \in {"embed"} \cup RemoteOps
    /\ lastOp.result = "EmbeddingError"
    /\ lastOp.embed.kind = "HttpError"

QdrantTransportFailed == lastOp.op \in RemoteOps /\ lastOp.result = "Http"

\* The text of the transport error behind the failure
TransportDetail ==
    IF QdrantTransportFailed THEN lastOp.answer.error ELSE lastOp.embed.error

InMessage(part, message) == \E i \in 1..Len(message) : message[i] = part

\* C27: a request that failed for a transport failure toward the provider
\* or toward Qdrant is answered 500 with a message that does not contain
\* the text of the transport error.
C27_TransportDetailNotInMessage ==
    (ProviderTransportFailed \/ QdrantTransportFailed) =>
        /\ into_response(lastOp).status = 500
        /\ ~InMessage(TransportDetail, into_response(lastOp).message)

\* C27: what holds of the code: the answer is 500 and its message is
\* "HTTP request failed: " followed by the text of the transport error.
C27_TransportDetailFollowsPrefix ==
    (ProviderTransportFailed \/ QdrantTransportFailed) =>
        into_response(lastOp) = Response(500, <<"HTTP request failed: ", TransportDetail>>)

\* The upsert got no response from Qdrant and the caller reads the URL asked
C27_Witness ==
    /\ QdrantTransportFailed
    /\ lastOp.op = "store_memory_qdrant"
    /\ TransportDetail = TransportError("http://qdrant:6333")
    /\ InMessage(TransportDetail, into_response(lastOp).message)

\* The provider gave no response and the caller reads the URL asked
C27_WitnessProvider ==
    /\ ProviderTransportFailed
    /\ TransportDetail # ""
    /\ InMessage(TransportDetail, into_response(lastOp).message)

----------------------------------------------------------------------------
(* The in-process search: zero magnitudes and ties                         *)

\* The score is 0.0
IsZeroScore(score) == score = <<0, 1>>

\* C28: every score a search returns is a quotient with a non-zero
\* denominator, and it is exactly 0.0 when the query or the entry's
\* embedding has zero magnitude; the search still returns the matching
\* entries up to the limit.
C28_ZeroMagnitudeScoresZero ==
    Searched =>
        /\ Len(lastOp.results) = MinOf(lastOp.limit, Cardinality(Matching(lastOp.session)))
        /\ \A i \in 1..Len(lastOp.results) :
              LET r == lastOp.results[i]
              IN  /\ r.score[2] > 0
                  /\ (SqMag(lastOp.query) = 0 \/ SqMag(entries[r.id].embedding) = 0)
                        => IsZeroScore(r.score)

\* A search with a query of non-zero magnitude returned an entry whose
\* embedding is the zero vector, scored 0.0
C28_Witness ==
    /\ Searched
    /\ SqMag(lastOp.query) > 0
    /\ \E i \in 1..Len(lastOp.results) :
          /\ entries[lastOp.results[i].id].embedding = <<0, 0>>
          /\ IsZeroScore(lastOp.results[i].score)

\* A search with the zero vector as query returned two entries scored 0.0
C28_WitnessZeroQuery ==
    /\ Searched
    /\ lastOp.query = <<0, 0>>
    /\ Len(lastOp.results) = 2
    /\ \A i \in 1..2 : IsZeroScore(lastOp.results[i].score)

----------------------------------------------------------------------------
(* Provisioning: termination                                               *)

\* ensure_collection is running
Provisioning == ec \in {"checking", "creating", "backoff"}

\* ensure_collection has returned Ok or Err
Returned == ec \in {"done", "failed"}

\* C30: when every request that is sent gets a response or a transport
\* error and the sleeps end, a run of ensure_collection that has started
\* returns, with Ok or with an error, and at no time has it sent more than
\* 5 existence checks or more than 5 create requests.
C30_EnsureCollectionTerminates ==
    /\ Provisioning ~> Returned
    /\ [](/\ Cardinality(Positions("GET")) <= max_attempts
          /\ Cardinality(Positions("PUT")) <= max_attempts)

\* A run returned an error after 5 checks, each answered 404, and 5 create
\* requests
C30_Witness ==
    /\ ec = "failed"
    /\ Cardinality(Positions("GET")) = max_attempts
    /\ Cardinality(Positions("PUT")) = max_attempts

----------------------------------------------------------------------------
(* Provisioning: what success rests on                                     *)

\* The place in the log of the existence check of the last attempt
LastCheck == CHOOSE i \in Positions("GET") : \A j \in Positions("GET") : j <= i

\* What the log holds from the last attempt's existence check on
LastAttempt == SubSeq(log, LastCheck, Len(log))

\* C31: ensure_collection has returned Ok exactly when it is done, and then
\* its last attempt is a check answered 200, or a check answered 404 and a
\* create request answered with a success status, with no error in that
\* attempt; the collection then exists in the backend.
C31_SuccessOnlyAfterAcknowledgement ==
    /\ ecResult = OkResult <=> ec = "done"
    /\ ec = "done" =>
          /\ Positions("GET") # {}
          /\ \/ /\ Len(LastAttempt) = 2
                /\ LastAttempt[2] = Ev("resp", 200)
             \/ /\ Len(LastAttempt) = 4
                /\ LastAttempt[2] = Ev("resp", 404)
                /\ LastAttempt[3].ev = "PUT"
                /\ LastAttempt[4].ev = "resp" /\ is_success(LastAttempt[4].n)
          /\ collectionExists

\* Success in a second attempt by a create request, after a first attempt
\* that failed
C31_Witness ==
    /\ ec = "done"
    /\ attempts = 2
    /\ Len(LastAttempt) = 4
    /\ LastAttempt[4] = Ev("resp", 200)
    /\ \E i \in 1..(LastCheck - 1) : TransientAt(i)

----------------------------------------------------------------------------
\* The log entry at i reports a transient failure of the create request.
CreateFailedTransientlyAt(i) ==
    /\ i > 1
    /\ log[i-1].ev = "PUT"
    /\ TransientAt(i)

\* The create request was sent, its response was lost, and the collection
\* exists: the check before it said 404, so this create made it.
LostCreate ==
    /\ Len(log) > 1
    /\ CreateFailedTransientlyAt(Len(log))
    /\ log[Len(log)].ev = "neterr"
    /\ collectionExists

\* This step sends the create request.
SendsCreate == "PUT" \in inflight' \ inflight

(* C32: every create request of ensure_collection directly follows the     *)
(* existence check of the same attempt, answered 404; a transient failure  *)
(* of the create (429, 503, no response) on attempts 1..4 is followed by   *)
(* the backoff sleep and then by a new existence check, never by a create  *)
(* alone; once the collection exists no create is sent, and a check of an  *)
(* existing collection that is answered 200 ends the run in success. A     *)
(* create that took effect but whose response was lost before the fifth    *)
(* attempt does lead to that next check.                                   *)
C32_RetryRestartsFromExistenceCheck ==
    /\ [](\A i \in Positions("PUT") :
             /\ i > 2
             /\ log[i-1] = Ev("resp", 404)
             /\ log[i-2] = Ev("GET", log[i].n))
    /\ [](\A i \in 1..Len(log) :
             (CreateFailedTransientlyAt(i) /\ i < Len(log)) =>
                /\ i + 2 <= Len(log)
                /\ log[i+1].ev = "slept"
                /\ log[i+1].n >= Backoff[log[i-1].n]
                /\ log[i+2] = Ev("GET", log[i-1].n + 1))
    /\ [][/\ SendsCreate => (ec = "checking" /\ ~collectionExists)
          /\ (ec = "checking" /\ collectionExists /\ ec' # "checking") =>
                \/ ec' = "done" /\ log' = Append(log, Ev("resp", 200))
                \/ ec' \in {"backoff", "failed"} /\ ~SendsCreate]_vars
    /\ ((LostCreate /\ attempts < max_attempts) ~>
           (ec = "checking" /\ collectionExists))

\* The response to the first create was lost though the collection was made;
\* the second attempt's check found it and the run succeeded with one PUT.
C32_Witness ==
    /\ ec = "done"
    /\ log = <<Ev("GET", 1), Ev("resp", 404), Ev("PUT", 1), Ev("neterr", 0),
               Ev("slept", 1), Ev("GET", 2), Ev("resp", 200)>>
    /\ created = 1

\* The claim as worded: whenever a create took effect and its response was
\* lost, a check follows; so no run ends in failure on such a create.
C32_LostCreateIsAlwaysRechecked ==
    LostCreate => ec # "failed"

----------------------------------------------------------------------------
\* The delete calls of id that began while id was in the map and have
\* returned to callers that still hold the result
ReturnedDeletes(id) ==
    {t \in Threads : Pc(t) = "deleted" /\ threads[t].id = id /\ threads[t].stored}

\* The threads whose delete of id returned true
Removers(id) == {t \in Threads : Pc(t) = "deleted" /\ threads[t].id = id /\ threads[t].removed}

(* C33: of the MemoryStore::delete calls for one id that overlap, the id   *)
(* being in the map when each of them began, exactly one returns true and  *)
(* the others return false; no two deletes of an id ever both return true, *)
(* and a delete returns true exactly when its own remove took the entry    *)
(* out of the map.                                                         *)
C33_ExactlyOneConcurrentDeleteWins ==
    /\ [](\A id \in 1..MaxLockStores :
             /\ Cardinality(Removers(id)) <= 1
             /\ Cardinality(ReturnedDeletes(id)) >= 2 =>
                   Cardinality(Removers(id) \cap ReturnedDeletes(id)) = 1
             /\ Removers(id) # {} => id \notin DOMAIN entries)
    /\ [][\A t \in Threads :
             (Pc(t) = "delete_writing" /\ threads'[t].pc = "deleted") =>
                /\ threads'[t].removed = (threads[t].id \in DOMAIN entries)
                /\ threads[t].id \notin DOMAIN entries'
                /\ \A i \in DOMAIN entries' : entries'[i] = entries[i]
                /\ DOMAIN entries' = DOMAIN entries \ {threads[t].id}]_vars

\* Two deletes of the stored id 1 ran together and both have returned: one
\* true, one false, while another entry is still in the map.
C33_Witness ==
    /\ ReturnedDeletes(1) = Threads
    /\ Cardinality(Removers(1)) = 1
    /\ DOMAIN entries = {2}

----------------------------------------------------------------------------
\* A handled remote store request that names a session
SessionStoreRequest == lastOp.op = "store_memory_qdrant" /\ lastOp.session # None

\* The point of the handled request carries a session_id.
PointCarriesSession ==
    /\ lastOp.point # NoPoint
    /\ "session_id" \in DOMAIN lastOp.point.payload

\* The request passed the checks that come before the session lookup: its
\* text, its metadata keys and its X-Api-Key header.
PassedToLookup ==
    /\ lastOp.text # ""
    /\ ~Reserved(lastOp.metadata)
    /\ (session_api_key = None \/ lastOp.apiKey = session_api_key)

\* The session store said that the session does not exist, or there is no
\* session store.
SessionRefused ==
    /\ SessionStoreRequest
    /\ PassedToLookup
    /\ \/ ~sessionStoreConfigured
       \/ lastOp.session \notin Sessions /\ lastOp.result # "InternalDependencyError"

\* C34 as stated: a remote store request whose session is unknown, or that
\* names a session while no session store is configured, is answered
\* BadRequest.
C34_UnknownSessionAlwaysBadRequest ==
    (SessionStoreRequest /\ (~sessionStoreConfigured \/ lastOp.session \notin Sessions)) =>
       lastOp.result = "BadRequest"

(* C34: a point with a session_id is sent to Qdrant only by a request      *)
(* whose session_id the configured session store was asked for, before the *)
(* embedding call and the upsert, and holds; and the payload's session_id  *)
(* is that id. A request that names a session which the store does not     *)
(* hold, or names one while no session store is configured, is never       *)
(* embedded or upserted and leaves the collection as it is; it is answered *)
(* BadRequest (400) once it has passed the text, metadata-key and API-key  *)
(* checks and, with a store configured, the lookup itself did not fail     *)
(* (which is answered InternalDependencyError); a wrong key is answered    *)
(* Unauthorized first.                                                     *)
C34_SessionConfirmedBeforeUpsert ==
    /\ []((lastOp.op = "store_memory_qdrant" /\ (PointCarriesSession \/ (SessionStoreRequest /\ Called("upsert")))) =>
            /\ sessionStoreConfigured
            /\ lastOp.session \in Sessions
            /\ lastOp.point.payload["session_id"] = lastOp.session
            /\ Len(lastOp.calls) >= 3
            /\ SubSeq(lastOp.calls, 1, 3) = <<"session_get", "embed", "upsert">>)
    /\ []((SessionStoreRequest /\ (~sessionStoreConfigured \/ lastOp.session \notin Sessions)) =>
            /\ lastOp.result \in {"BadRequest", "Unauthorized", "InternalDependencyError"}
            /\ ~Called("embed") /\ ~Called("upsert")
            /\ lastOp.embed = NoEmbed /\ lastOp.answer = NoAnswer /\ lastOp.point = NoPoint
            /\ ~sessionStoreConfigured => ~Called("session_get"))
    /\ [](SessionRefused =>
            /\ lastOp.result = "BadRequest"
            /\ into_response(lastOp).status = 400)
    /\ [][(SessionStoreRequest' /\ (~sessionStoreConfigured \/ lastOp'.session \notin Sessions)) =>
             points' = points]_vars

\* The store was asked for session s2, which it does not hold, and the
\* request was refused as a bad request.
C34_Witness ==
    /\ SessionRefused
    /\ sessionStoreConfigured
    /\ lastOp.session = "s2"
    /\ lastOp.calls = <<"session_get">>
    /\ lastOp.result = "BadRequest"

\* A request naming a session is refused for want of a session store.
C34_WitnessNoSessionStore ==
    /\ SessionRefused
    /\ ~sessionStoreConfigured
    /\ lastOp.calls = <<>>
    /\ lastOp.result = "BadRequest"

\* A point with the session_id s1 was written after the store confirmed s1.
C34_WitnessStored ==
    /\ PointCarriesSession
    /\ lastOp.result = "Ok"
    /\ lastOp.calls = <<"session_get", "embed", "upsert", "touch">>
    /\ "u1" \in DOMAIN points

----------------------------------------------------------------------------
\* This step is the handling of a request by `handler`.
Handles(handler) == lastOp.op = "none" /\ lastOp'.op = handler

\* The step leaves the in-process map as it is.
MapUnchanged == entries' = entries /\ iterOrder' = iterOrder

\* The step inserts one entry under a new id and keeps the others.
InsertsOne(id) ==
    /\ id \notin DOMAIN entries
    /\ DOMAIN entries' = DOMAIN entries \cup {id}
    /\ \A i \in DOMAIN entries : entries'[i] = entries[i]

\* The step removes the entry of id, which is present, and keeps the others.
RemovesOne(id) ==
    /\ id \in DOMAIN entries
    /\ DOMAIN entries' = DOMAIN entries \ {id}
    /\ \A i \in DOMAIN entries' : entries'[i] = entries[i]

FailedStoreResults == {"BadRequest", "ProviderNotFound", "EmbeddingError"}

(* C35: the in-process map changes only in a step that handles a store     *)
(* answered Created, which inserts one entry under a new id, or a delete   *)
(* of a present id, which removes that entry; both keep every other entry. *)
(* A store that fails validation (BadRequest), provider lookup             *)
(* (ProviderNotFound) or embedding (EmbeddingError) leaves the map as it   *)
(* is, and so do a delete of an id that is not in the map, any search, and *)
(* the sending of a response.                                              *)
C35_MapChangesOnlyByStoreOrDelete ==
    /\ [](lastOp.op = "store_memory" =>
            /\ lastOp.result \in FailedStoreResults \cup {"Created"}
            /\ lastOp.result = "BadRequest" <=> lastOp.text = ""
            /\ lastOp.result \in {"EmbeddingError", "Created"} <=> lastOp.calls = <<"embed">>)
    /\ [][/\ ~MapUnchanged =>
                \/ /\ Handles("store_memory")
                   /\ lastOp'.result = "Created"
                   /\ InsertsOne(lastOp'.memId)
                \/ /\ Handles("delete_memory")
                   /\ lastOp'.result = "NoContent"
                   /\ RemovesOne(lastOp'.memId)
          /\ (Handles("store_memory") /\ lastOp'.result = "Created") =>
                InsertsOne(lastOp'.memId)
          /\ (Handles("store_memory") /\ lastOp'.result \in FailedStoreResults) =>
                (MapUnchanged /\ nextId' = nextId)
          /\ Handles("delete_memory") =>
                IF lastOp'.memId \in DOMAIN entries
                THEN lastOp'.result = "NoContent" /\ RemovesOne(lastOp'.memId)
                ELSE lastOp'.result = "MemoryNotFound" /\ MapUnchanged
          /\ Handles("search_memory") => MapUnchanged
          /\ lastOp'.op = "none" => MapUnchanged]_vars

\* A store failed in embedding while the map held an entry, after another
\* entry had been deleted.
C35_Witness ==
    /\ lastOp.op = "store_memory"
    /\ lastOp.result = "EmbeddingError"
    /\ DOMAIN entries = {2}

\* A store with an empty text was refused while the map held an entry.
C35_WitnessValidation ==
    /\ lastOp.op = "store_memory"
    /\ lastOp.result = "BadRequest"
    /\ DOMAIN entries # {}

\* A store naming a provider that is not registered was refused while the
\* map held an entry.
C35_WitnessProvider ==
    /\ lastOp.op = "store_memory"
    /\ lastOp.result = "ProviderNotFound"
    /\ DOMAIN entries # {}

\* An id that was deleted before is deleted again while the map holds
\* another entry.
C35_WitnessUnknownId ==
    /\ lastOp.op = "delete_memory"
    /\ lastOp.result = "MemoryNotFound"
    /\ DOMAIN entries # {}

\* A search found the entries of a non-empty map.
C35_WitnessSearch ==
    /\ lastOp.op = "search_memory"
    /\ lastOp.result = "Ok"
    /\ Len(lastOp.results) = 2

====
